---- MODULE Spec2Model ----
(***************************************************************************)
(* A state-machine model of src/m700.py: the M700 session class of the     *)
(* Mitsubishi CNC M700 EZSocket client.                                    *)
(*                                                                         *)
(* Shared state: the class-level unit-number table, the class-level RLock  *)
(* and, per M700 instance (session), the fields __isopen, __ezcom and      *)
(* __unitno.  Each thread runs one facade operation at a time; an          *)
(* operation is a sequence of steps, one step per endpoint (COM) call      *)
(* together with the local code up to the next endpoint call.              *)
(***************************************************************************)
EXTENDS Integers, Sequences, FiniteSets, TLC

VARIABLES
    uno_list,   \* M700.__uno_list: slot i marked used (slot i is unit number i)
    isopen,     \* self.__isopen, per session
    ezcom,      \* self.__ezcom, per session: "None" or "Object" (a COM object)
    unitno,     \* self.__unitno, per session; NoUnit while the attribute is not set
    lock,       \* M700.__lock: owning thread, or NoThread
    pc,         \* per thread: position in the running operation
    op,         \* per thread: the operation that is running
    ses,        \* per thread: the session (self) of the running operation
    errcd,      \* per thread: the local errcd, the status code returned last
    slot,       \* per thread: the index found by the scan of alloc_unitno
    cont,       \* per thread: where close() returns to
    exc,        \* per thread: the exception raised in the running operation
    result,     \* per thread: what the finished operation hands to its caller
    log,        \* observer, per thread: the calls issued by the running operation, in order
    pre,        \* observer, per thread: session and allocator state as the operation found them
    lost,       \* observer, per session: an Open session got a connection-lost code
                \* in a guarded operation, and no guarded operation has started since
    e2e,        \* observer, per thread: the caller's progress in the sequence
                \* telemetry read ok, close(), is_open() on one session
    cfg,        \* what a specification runs: its threads and its observers
    connections, \* M700.__connections: key -> instance
    constructed, \* the M700 instances that exist
    arg,        \* per thread: the argument of the running operation
    path,       \* per thread: find_dir's local path, once the token is replaced
    buf,        \* per thread: the local result under construction
    remote,     \* per thread: what the endpoint has left to deliver to the operation
    dropcd      \* per thread: the status code of the cleanup call, which its
                \* call site does not look at

vars == <<uno_list, isopen, ezcom, unitno, lock, pc, op, ses, errcd, slot, cont,
          exc, result, log, pre, lost, e2e, cfg,
          connections, constructed, arg, path, buf, remote, dropcd>>

\* The state of the registry and of the operations with arguments.
ext == <<connections, constructed, arg, path, buf, remote, dropcd>>
\* The part of it that is local to a running operation.
locals == <<arg, path, buf, remote, dropcd>>

-----------------------------------------------------------------------------
(* Bounds of the model *)

\* Size of the unit-number table ([False] * 255 in the source, scaled down).
NumUnits == 2
\* Number of M700 instances.
NumSessions == 2
\* Number of threads that exist.
NumThreads == 2
\* Largest remote file, in blocks of ChunkSize bytes.
MaxBlocks == 2
\* Largest number of entries the endpoint reports to one find_dir.
MaxEntries == 2

Units == 1..NumUnits
Sessions == 1..NumSessions
Threads == 1..NumThreads
NoUnit == 0
NoThread == 0

-----------------------------------------------------------------------------
(* Status codes of the endpoint: signed 32-bit integers *)

INT32_MIN == -2147483647 - 1
\* 0x80a00101 as a signed 32-bit value: "Communication line not open"
ERR_LINE_NOT_OPEN == -2136997631
\* 0x8202000a as a signed 32-bit value: "Not Connected"
ERR_NOT_CONNECTED == -2113798134
\* 0xffffffff as a signed 32-bit value: "data can not be read / written"
ERR_READ_WRITE == -1

\* The status codes the endpoint returns in the model: success, informational
\* (positive), the two connection-lost codes, a code of the table that is not
\* connection-lost, and a negative code that is not in the table.
Codes == {0, 1, ERR_READ_WRITE, INT32_MIN, ERR_LINE_NOT_OPEN, ERR_NOT_CONNECTED}

\* What Close() and Release() do in close(), where any exception is caught: the
\* call returns a status code, or it raises (pywintypes.com_error).
Outcomes == {[err |-> FALSE, code |-> c] : c \in Codes} \cup {[err |-> TRUE, code |-> 0]}

-----------------------------------------------------------------------------
(* __raise_error: the error table and the classification of a status code *)

\* __errmap: {'hexadecimal error code': 'error detail message'}
errmap ==
  { <<"0x80a00101", "Communication line not open">>,
    <<"0x80a00104", "Double Open Error">>,
    <<"0x80a00105", "Incorrect data type of argument">>,
    <<"0x80a00106", "Invalid data range of argument">>,
    <<"0x80a00107", "Not Supported">>,
    <<"0x80a00109", "Can't open communication line">>,
    <<"0x80a0010a", "The argument is a null pointer.">>,
    <<"0x80a0010b", "Invalid data for argument">>,
    <<"0x80a0010c", "COMM port handle error">>,
    <<"0x80b00101", "Cannot reserve memory">>,
    <<"0x80b00102", "EZSocketPc error can not be obtained">>,
    <<"0x80b00201", "Incorrect mode">>,
    <<"0x80b00202", "Open file not open">>,
    <<"0x80b00203", "File already exists">>,
    <<"0x80b00204", "already open file">>,
    <<"0x80b00205", "Can't create temporary file">>,
    <<"0x80b00206", "File is not open in write mode">>,
    <<"0x80b00207", "Incorrect write data size">>,
    <<"0x80b00208", "cannot write">>,
    <<"0x80b00209", "File not opened in read mode">>,
    <<"0x80b0020a", "unreadable state">>,
    <<"0x80b0020b", "Can't create temporary file">>,
    <<"0x80b0020c", "File does not exist (read mode)">>,
    <<"0x80b0020d", "Can't open file">>,
    <<"0x80b0020e", "Invalid file path">>,
    <<"0x80b0020f", "The read file is invalid">>,
    <<"0x80b00210", "Invalid write file">>,
    <<"0x80b00301", "Incorrect host name when connecting locally due to automation call">>,
    <<"0x80b00302", "TCP / IP communication is not set">>,
    <<"0x80b00303", "Cannot set because you are already communicating">>,
    <<"0x80b00304", "There is no lower module">>,
    <<"0x80b00305", "Can not create EZSocketPc object">>,
    <<"0x80b00401", "Data does not exist">>,
    <<"0x80b00402", "Data duplication">>,
    <<"0x80b00501", "No parameter information file">>,
    <<"0x80020190", "NC card number incorrect">>,
    <<"0x80020102", "The device has not been opened">>,
    <<"0x80020132", "Invalid Command">>,
    <<"0x80020133", "Invalid communication parameter data range">>,
    <<"0x80030143", "There is a problem with the file system">>,
    <<"0x80030191", "The directory does not exist">>,
    <<"0x8003019b", "The drive does not exist">>,
    <<"0x800301a2", "Directory does not exist">>,
    <<"0x800301a8", "The drive does not exist">>,
    <<"0x80050d90", "Invalid system / axis specification">>,
    <<"0x80050d02", "Incorrect alarm type">>,
    <<"0x80050d03", "Error in communication data between NC and PC">>,
    <<"0x80041194", "Incorrect specification of life management data type">>,
    <<"0x80041195", "Setting data range over">>,
    <<"0x80041196", "Setting tool number mismatch">>,
    <<"0x80041197", "Specified tool number out of specification">>,
    <<"0x80040190", "Invalid system / axis specification">>,
    <<"0x80040191", "Blank number incorrect">>,
    <<"0x80040192", "Incorrect Subdivision Number">>,
    <<"0x80040196", "I can not fit into the buffer prepared by the application">>,
    <<"0x80040197", "Invalid data type">>,
    <<"0x8004019d", "The data can not be read">>,
    <<"0x8004019f", "write only data">>,
    <<"0x800401a0", "axis specification invalid">>,
    <<"0x800401a1", "Data number invalid">>,
    <<"0x800401a3", "No read data">>,
    <<"0x8004019a", "Invalid read data range">>,
    <<"0x80040290", "Invalid system / axis specification">>,
    <<"0x80040291", "Blank number incorrect">>,
    <<"0x80040292", "Incorrect Subdivision Number">>,
    <<"0x80040296", "I can not fit into the buffer prepared by the application">>,
    <<"0x80040297", "Incorrect data type">>,
    <<"0x8004029b", "Read only data">>,
    <<"0x8004029e", "Data can not be written">>,
    <<"0x800402a0", "axis specification invalid">>,
    <<"0x8004024d", "Secure Password Locked">>,
    <<"0x800402a2", "Format aborted due to invalid SRAM open parameter">>,
    <<"0x800402a4", "Can't register edit file (already editing)">>,
    <<"0x800402a5", "Can't release edit file">>,
    <<"0x800402a3", "No data to write to">>,
    <<"0x8004029a", "Invalid write data range">>,
    <<"0x800402a6", "Security Password not set">>,
    <<"0x800402a7", "Safety Data Integrity Check Error">>,
    <<"0x800402a9", "No data type for safety">>,
    <<"0x800402a8", "Can not write in tool data sort">>,
    <<"0x80040501", "High-speed readout not registered">>,
    <<"0x80040402", "priority specified incorrectly">>,
    <<"0x80040401", "The number of registrations has been exceeded">>,
    <<"0x80040490", "Incorrect Address">>,
    <<"0x80040491", "Blank number incorrect">>,
    <<"0x80040492", "Incorrect Subdivision Number">>,
    <<"0x80040497", "Incorrect data type">>,
    <<"0x8004049b", "Read only data">>,
    <<"0x8004049d", "The data can not be read">>,
    <<"0x8004049f", "write only data">>,
    <<"0x800404a0", "Axis specification invalid">>,
    <<"0x80040ba3", "No rethreading position set">>,
    <<"0x80030101", "Another directory is already open">>,
    <<"0x80030103", "Data size over">>,
    <<"0x80030148", "Long file name">>,
    <<"0x80030198", "Invalid file name format">>,
    <<"0x80030190", "Not Opened">>,
    <<"0x80030194", "File information read error">>,
    <<"0x80030102", "Another directory has already been opened (PC only)">>,
    <<"0x800301a0", "not open">>,
    <<"0x800301a1", "File does not exist">>,
    <<"0x800301a5", "File information read error">>,
    <<"0x80030447", "Can not copy (during operation)">>,
    <<"0x80030403", "Over registration number">>,
    <<"0x80030401", "The destination file already exists">>,
    <<"0x80030443", "There is a problem with the file system">>,
    <<"0x80030448", "Long file name">>,
    <<"0x80030498", "Invalid file name format">>,
    <<"0x80030404", "Memory capacity over">>,
    <<"0x80030491", "Directory does not exist">>,
    <<"0x8003049b", "The drive does not exist">>,
    <<"0x80030442", "File does not exist">>,
    <<"0x80030446", "Can not copy (PLC in operation)">>,
    <<"0x80030494", "The transfer source file can not be read">>,
    <<"0x80030495", "Can not write to destination file">>,
    <<"0x8003044a", "Can not copy (protect)">>,
    <<"0x80030405", "Verification error">>,
    <<"0x80030449", "does not support the matching feature">>,
    <<"0x8003044c", "Copying files">>,
    <<"0x80030490", "file not open">>,
    <<"0x8003044d", "Secure Password Locked">>,
    <<"0x8003049d", "Invalid file format">>,
    <<"0x8003049e", "The password is different">>,
    <<"0x800304a4", "File can not be created (PC only)">>,
    <<"0x800304a3", "Can't open file (PC only)">>,
    <<"0x80030402", "The destination file already exists">>,
    <<"0x800304a7", "Invalid file name format">>,
    <<"0x800304a2", "Directory does not exist">>,
    <<"0x800304a8", "The drive does not exist">>,
    <<"0x800304a1", "File does not exist">>,
    <<"0x800304a5", "The transfer source file can not be read">>,
    <<"0x800304a6", "Can not write to destination file">>,
    <<"0x80030406", "Disk capacity over">>,
    <<"0x800304a0", "file not open">>,
    <<"0x80030201", "Can't delete files">>,
    <<"0x80030242", "File does not exist">>,
    <<"0x80030243", "There is a problem with the file system">>,
    <<"0x80030247", "Can not delete (during operation)">>,
    <<"0x80030248", "long file name">>,
    <<"0x8003024a", "The file can not be deleted (protected)">>,
    <<"0x80030291", "Directory does not exist">>,
    <<"0x80030298", "Invalid file name format">>,
    <<"0x8003029b", "The drive does not exist">>,
    <<"0x80030202", "Can't delete files">>,
    <<"0x800302a7", "Invalid file name format">>,
    <<"0x800302a2", "Directory does not exist">>,
    <<"0x800302a8", "The drive does not exist">>,
    <<"0x800302a1", "File does not exist">>,
    <<"0x80030301", "New file name already exists">>,
    <<"0x80030342", "File does not exist">>,
    <<"0x80030343", "There is a problem with the file system">>,
    <<"0x80030347", "Can not rename (during operation)">>,
    <<"0x80030348", "Long file name">>,
    <<"0x8003034a", "Can not rename (Protect)">>,
    <<"0x80030391", "The directory does not exist">>,
    <<"0x80030398", "Invalid file name format">>,
    <<"0x8003039b", "The drive does not exist">>,
    <<"0x80030303", "Can't rename">>,
    <<"0x80030305", "The new and old file names are the same">>,
    <<"0x80030302", "New file name already exists">>,
    <<"0x800303a7", "Invalid file name format">>,
    <<"0x800303a2", "The directory does not exist">>,
    <<"0x800303a8", "The drive does not exist">>,
    <<"0x800303a1", "File does not exist">>,
    <<"0x80030691", "The directory does not exist">>,
    <<"0x8003069b", "The drive does not exist">>,
    <<"0x80030643", "There is a problem with the file system">>,
    <<"0x80030648", "Long file name or incorrect format">>,
    <<"0x800306a2", "Directory does not exist (PC only)">>,
    <<"0x800306a8", "Drive does not exist (PC only)">>,
    <<"0x80030701", "I can not fit into the buffer prepared by the application">>,
    <<"0x80030794", "Drive information read error">>,
    <<"0x82020001", "already open">>,
    <<"0x82020002", "Not Opened">>,
    <<"0x82020004", "card does not exist">>,
    <<"0x82020006", "Invalid Channel Number">>,
    <<"0x82020007", "The file descriptor is invalid">>,
    <<"0x8202000a", "Not Connected">>,
    <<"0x8202000b", "not closed">>,
    <<"0x82020014", "timeout">>,
    <<"0x82020015", "Invalid data">>,
    <<"0x82020016", "Canceled due to cancel request">>,
    <<"0x82020017", "Incorrect packet size">>,
    <<"0x82020018", "Ended by task end">>,
    <<"0x82020032", "The command is invalid">>,
    <<"0x82020033", "Incorrect setting data">>,
    <<"0x80060001", "Data read cache disabled">>,
    <<"0x80060090", "Incorrect Address">>,
    <<"0x80060091", "Blank number incorrect">>,
    <<"0x80060092", "Incorrect Subdivision Number">>,
    <<"0x80060097", "Incorrect data type">>,
    <<"0x8006009a", "Invalid data range">>,
    <<"0x8006009d", "The data can not be read">>,
    <<"0x8006009f", "Incorrect data type">>,
    <<"0x800600a0", "axis specification invalid">>,
    <<"0x80070140", "Can't reserve work area">>,
    <<"0x80070142", "Can't open file">>,
    <<"0x80070147", "The file can not be opened (during operation)">>,
    <<"0x80070148", "long file path">>,
    <<"0x80070149", "Not supported (CF not supported)">>,
    <<"0x80070192", "already open">>,
    <<"0x80070199", "The maximum number of open files has been exceeded">>,
    <<"0x8007019f", "Can not open during tool data sorting">>,
    <<"0x800701b0", "Security password not certified">>,
    <<"0x80070290", "File not open">>,
    <<"0x80070340", "Can't reserve work area">>,
    <<"0x80070347", "File can not be created (during operation)">>,
    <<"0x80070348", "long file path">>,
    <<"0x80070349", "Not supported (CF not supported)">>,
    <<"0x80070392", "Already generated">>,
    <<"0x80070393", "Can't create file">>,
    <<"0x80070399", "The maximum number of open files has been exceeded">>,
    <<"0x8007039b", "The drive does not exist">>,
    <<"0x80070490", "file not open">>,
    <<"0x80070494", "File information read error">>,
    <<"0x80070549", "Not writable">>,
    <<"0x80070590", "File not open">>,
    <<"0x80070595", "File write error">>,
    <<"0x80070740", "File Delete Error">>,
    <<"0x80070742", "File does not exist 3-6">>,
    <<"0x80070747", "The file can not be deleted (during operation)">>,
    <<"0x80070748", "long file path">>,
    <<"0x80070749", "Not supported (CF not supported)">>,
    <<"0x80070792", "file is open">>,
    <<"0x8007079b", "The drive does not exist">>,
    <<"0x80070842", "File does not exist">>,
    <<"0x80070843", "File that can not be renamed">>,
    <<"0x80070848", "long file path">>,
    <<"0x80070849", "Not supported (CF not supported)">>,
    <<"0x80070892", "The file is open">>,
    <<"0x80070899", "The maximum number of open files has been exceeded">>,
    <<"0x8007089b", "The drive does not exist">>,
    <<"0x80070944", "Invalid command (not supported)">>,
    <<"0x80070990", "Not Opened">>,
    <<"0x80070994", "Read error">>,
    <<"0x80070995", "Write Error">>,
    <<"0x80070996", "I can not fit into the buffer prepared by the application">>,
    <<"0x80070997", "Invalid data type">>,
    <<"0x80070949", "Not supported (CF not supported)">>,
    <<"0x80070a40", "Can't reserve work area">>,
    <<"0x80070a47", "The directory can not be opened (during operation)">>,
    <<"0x80070a48", "long file path">>,
    <<"0x80070a49", "Not supported (CF not supported)">>,
    <<"0x80070a91", "Directory does not exist">>,
    <<"0x80070a92", "already open">>,
    <<"0x80070a99", "The maximum number of open directories has been exceeded">>,
    <<"0x80070a9b", "The drive does not exist">>,
    <<"0x80070b90", "The directory has not been opened">>,
    <<"0x80070b91", "Directory does not exist">>,
    <<"0x80070b96", "I can not fit into the buffer prepared by the application">>,
    <<"0x80070d90", "The directory has not been opened">>,
    <<"0x80070e48", "long file path">>,
    <<"0x80070e49", "Supported (CF not supported)">>,
    <<"0x80070e94", "Error reading file information">>,
    <<"0x80070e99", "The maximum number of open files has been exceeded">>,
    <<"0x80070e9b", "The drive does not exist">>,
    <<"0x80070f48", "long file path">>,
    <<"0x80070f49", "Not supported (CF not supported)">>,
    <<"0x80070f94", "Error reading file information">>,
    <<"0x80070f90", "The file has not been opened">>,
    <<"0x80070f9b", "The drive does not exist">>,
    <<"0x8007099c", "Sorry, open format invalid and abort format">>,
    <<"0xf00000ff", "Invalid argument">>,
    <<"0xffffffff", "data can not be read / written">> }

\* dict.get(key, default) on __errmap
errmap_get(key, default) ==
    LET hits == {p \in errmap : p[1] = key}
    IN  IF hits = {} THEN default ELSE (CHOOSE p \in hits : TRUE)[2]

HexDigits == <<"0", "1", "2", "3", "4", "5", "6", "7", "8", "9",
               "a", "b", "c", "d", "e", "f">>

\* format(n, 'x') for 0 <= n < 2^16
RECURSIVE format_x(_)
format_x(n) ==
    IF n < 16 THEN HexDigits[n + 1]
    ELSE format_x(n \div 16) \o HexDigits[(n % 16) + 1]

\* format(n, '04x') for 0 <= n < 2^16
format_04x(n) ==
    HexDigits[(n \div 4096) + 1] \o HexDigits[((n \div 256) % 16) + 1]
        \o HexDigits[((n \div 16) % 16) + 1] \o HexDigits[(n % 16) + 1]

\* errcd & 0xffffffff, as its high and low 16-bit halves
u32_hi(c) == (c \div 65536) % 65536
u32_lo(c) == c % 65536

\* hex_str = '0x' + format(errcd & 0xffffffff, 'x')
hex_str(c) ==
    "0x" \o (IF u32_hi(c) = 0 THEN format_x(u32_lo(c))
             ELSE format_x(u32_hi(c)) \o format_04x(u32_lo(c)))

\* Variant: only status code 0 returns normally ("if errcd == 0: return").
returns_normally_zero_only(c) == c = 0

\* if errcd == 0 or errcd >= 1: return
returns_normally(c) == c = 0 \/ c >= 1

\* msg = __errmap.get(hex_str, 'Unkown error')
error_msg(c) == errmap_get(hex_str(c), "Unkown error")

\* Variant: only 0x80a00101 drives close(); 0x8202000a is left out of the test.
closes_session_line_not_open_only(c) == "0x80a00101" = hex_str(c)

\* if '0x80a00101' == hex_str or '0x8202000a' == hex_str: self.close()
closes_session(c) == "0x80a00101" = hex_str(c) \/ "0x8202000a" = hex_str(c)

NoExc == [kind |-> "none", addr |-> 0, hex |-> "", msg |-> ""]
\* raise Exception('Error=(IP:' + self.__ip + ') ' + hex_str + ': ' + msg)
remote_error(s, c) == [kind |-> "remote", addr |-> s, hex |-> hex_str(c), msg |-> error_msg(c)]
\* an exception that does not come from __raise_error
local_error(k) == [kind |-> k, addr |-> 0, hex |-> "", msg |-> ""]

-----------------------------------------------------------------------------
(* Records kept per thread *)

NoResult == [kind |-> "none", val |-> FALSE, inst |-> 0]
Ok(v) == [kind |-> "ok", val |-> v, inst |-> 0]
Raised == [kind |-> "raised", val |-> FALSE, inst |-> 0]
\* return cls.__connections[key]: the caller gets instance s
Got(s) == [kind |-> "ok", val |-> TRUE, inst |-> s]

\* What the caller of thread t did last: n = 1 after a telemetry read of session
\* ses that succeeded, n = 2 after a close() of that session right after it.
NoE2E == [ses |-> 1, n |-> 0]
E2E(s, k) == [ses |-> s, n |-> k]

NoPre == [isopen |-> FALSE, ezcom |-> "None", unitno |-> NoUnit,
          uno_list |-> [i \in Units |-> FALSE], lost |-> FALSE, e2e |-> FALSE]
\* The state of session s and of the allocator, as an operation of thread t
\* finds it.
Snapshot(t, s) == [isopen |-> isopen[s], ezcom |-> ezcom[s], unitno |-> unitno[s],
                   uno_list |-> uno_list, lost |-> lost[s], e2e |-> e2e[t] = E2E(s, 2)]

\* A selector argument: the class of the value passed and the value.
NoSel == [cls |-> "none", value |-> 0]
\* The arguments of an operation; an operation sets the ones it takes.
NoArg == [host |-> "", path |-> <<>>, dev |-> <<>>, sel |-> NoSel, size |-> 0]
\* No instance: what a lookup has before it returns.
NoSession == 0

\* The two status codes that mean the connection is gone.
LostCodes == {ERR_LINE_NOT_OPEN, ERR_NOT_CONNECTED}

\* The operations that run under "with self.__lock".
Guarded == {"is_open", "get_drive_infomation", "get_current_position",
            "get_program_number", "read_file", "write_file", "find_dir",
            "read_dev", "write_dev", "set_tool_offset_h", "set_tool_offset_d"}

\* The observers a specification keeps up to date.
Observing(x) == x \in cfg.observe
SetLost(s, v) == lost' = IF Observing("lost") THEN [lost EXCEPT ![s] = v] ELSE lost
SetE2E(t, v) == e2e' = IF Observing("e2e") THEN [e2e EXCEPT ![t] = v] ELSE e2e

-----------------------------------------------------------------------------
(* Initial state: the class attributes as the class statement leaves them, *)
(* every instance just constructed, every thread idle.                     *)

InitShared ==
    /\ uno_list = [i \in Units |-> FALSE]
    /\ isopen = [s \in Sessions |-> FALSE]
    /\ ezcom = [s \in Sessions |-> "None"]
    /\ unitno = [s \in Sessions |-> NoUnit]
    /\ lock = NoThread
    /\ pc = [t \in Threads |-> "idle"]
    /\ op = [t \in Threads |-> "none"]
    /\ ses = [t \in Threads |-> 1]
    /\ errcd = [t \in Threads |-> 0]
    /\ slot = [t \in Threads |-> NoUnit]
    /\ cont = [t \in Threads |-> "done"]
    /\ exc = [t \in Threads |-> NoExc]
    /\ result = [t \in Threads |-> NoResult]
    /\ log = [t \in Threads |-> <<>>]
    /\ pre = [t \in Threads |-> NoPre]
    /\ lost = [s \in Sessions |-> FALSE]
    /\ e2e = [t \in Threads |-> NoE2E]
    /\ connections = <<>>
    /\ arg = [t \in Threads |-> NoArg]
    /\ path = [t \in Threads |-> <<>>]
    /\ buf = [t \in Threads |-> <<>>]
    /\ remote = [t \in Threads |-> 0]
    /\ dropcd = [t \in Threads |-> 0]

\* Every instance was made by its constructor, M700(host); one thread calls
\* the operations of every session, one after another.
InitDirect == InitShared /\ constructed = Sessions

Init == InitDirect /\ cfg = [threads |-> {1}, observe |-> {"log", "pre"}]

-----------------------------------------------------------------------------
(* Helpers of the steps *)

SetLog(t, sq) == log' = IF Observing("log") THEN [log EXCEPT ![t] = sq] ELSE log
Log(t, name) == SetLog(t, Append(log[t], name))
SetPre(t, s) == pre' = IF Observing("pre") THEN [pre EXCEPT ![t] = Snapshot(t, s)] ELSE pre
Goto(t, where) == pc' = [pc EXCEPT ![t] = where]

\* errcd = <endpoint call>: the local errcd takes the returned status code.
Assign(t, c) == errcd' = [errcd EXCEPT ![t] = c]

\* self.__raise_error(errcd) at the end of a step of thread t: return normally
\* and go on at `next`, or raise, after self.close() for a connection-lost code.
raise_error(t, c, next) ==
    IF returns_normally(c)
    THEN Goto(t, next) /\ UNCHANGED <<exc, cont>>
    ELSE /\ exc' = [exc EXCEPT ![t] = remote_error(ses[t], c)]
         /\ IF closes_session(c)
            THEN Goto(t, "close1") /\ cont' = [cont EXCEPT ![t] = "raise"]
            ELSE Goto(t, "raise") /\ UNCHANGED cont

\* self.__raise_error(errcd) inside a try block with a finally clause: what it
\* raises reaches the finally clause (at `handler`) before it leaves.
raise_error_in_try(t, c, next, handler) ==
    IF returns_normally(c)
    THEN Goto(t, next) /\ UNCHANGED <<exc, cont>>
    ELSE /\ exc' = [exc EXCEPT ![t] = remote_error(ses[t], c)]
         /\ IF closes_session(c)
            THEN Goto(t, "close1") /\ cont' = [cont EXCEPT ![t] = handler]
            ELSE Goto(t, handler) /\ UNCHANGED cont

\* "with self.__lock" is left: the RLock is released.
Unlock == lock' = NoThread

-----------------------------------------------------------------------------
(* The caller starts an operation on a session *)

\* m700.close(): close() takes no lock.
close(t, s) ==
    /\ t \in cfg.threads /\ pc[t] = "idle"
    /\ s \in constructed
    /\ op' = [op EXCEPT ![t] = "close"]
    /\ ses' = [ses EXCEPT ![t] = s]
    /\ SetPre(t, s)
    /\ cont' = [cont EXCEPT ![t] = "done"]
    /\ Goto(t, "close1")
    /\ UNCHANGED <<uno_list, isopen, ezcom, unitno, lock, errcd, slot, exc, result,
                   log, lost, e2e, cfg, ext>>

\* Variant: the operations without their "with self.__lock:".
acquirable_always(t, s) == TRUE

\* Variant: a lock made in __init__, one for each instance
\* ("self.__lock = threading.RLock()").
acquirable_per_instance(t, s) == IF lock \in {NoThread, t} THEN TRUE ELSE ses[lock] # s

\* __lock = threading.RLock() in the class body: one lock object for every
\* instance, which thread t can take when no other thread owns it, whatever
\* the instance s.
acquirable(t, s) == lock \in {NoThread, t}

\* A guarded operation o of session s: "with self.__lock:" is entered, which
\* takes the RLock when no other thread owns it; then self.__open() is next.
enter(t, s, o) ==
    /\ t \in cfg.threads /\ pc[t] = "idle"
    /\ s \in constructed
    /\ acquirable(t, s)
    /\ lock' = t
    /\ op' = [op EXCEPT ![t] = o]
    /\ ses' = [ses EXCEPT ![t] = s]
    /\ SetPre(t, s)
    /\ SetLost(s, FALSE)
    /\ UNCHANGED <<uno_list, isopen, ezcom, unitno, errcd, slot, cont, result,
                   log, e2e, cfg, connections, constructed>>

\* An operation without arguments, whose first statement is self.__open().
guarded(t, s, o) ==
    /\ enter(t, s, o)
    /\ Goto(t, "open")
    /\ UNCHANGED <<exc, locals>>

is_open(t, s) == guarded(t, s, "is_open")

get_drive_infomation(t, s) == guarded(t, s, "get_drive_infomation")

-----------------------------------------------------------------------------
(* __open *)

\* Variant: __open keyed on the handle ("if self.__ezcom is None:").
needs_open_no_handle(s) == ezcom[s] = "None"

\* Variant: __open without its guard, the handshake run on every call.
needs_open_always(s) == TRUE

\* if not self.__isopen:
needs_open(s) == ~isopen[s]

\* Already open: __open does nothing.
open_noop(t) ==
    /\ pc[t] = "open"
    /\ ~needs_open(ses[t])
    /\ Goto(t, "body")
    /\ UNCHANGED <<uno_list, isopen, ezcom, unitno, lock, op, ses, errcd, slot,
                   cont, exc, result, log, pre, lost, e2e, cfg, ext>>

\* self.__ezcom = Dispatch(...); errcd = self.__ezcom.SetTCPIPProtocol(ip, port)
open_SetTCPIPProtocol(t) ==
    /\ pc[t] = "open"
    /\ needs_open(ses[t])
    /\ ezcom' = [ezcom EXCEPT ![ses[t]] = "Object"]
    /\ SetLog(t, log[t] \o <<"Dispatch", "SetTCPIPProtocol">>)
    /\ \E c \in Codes : Assign(t, c)
    /\ Goto(t, "alloc")
    /\ UNCHANGED <<uno_list, isopen, unitno, lock, op, ses, slot, cont, exc, result,
                   pre, lost, e2e, cfg, ext>>

\* Variant: a full table hands out unit number 1 again.
first_free_wraps(list) ==
    LET free == {i \in Units : list[i] = FALSE}
    IN  IF free = {} THEN 1 ELSE CHOOSE i \in free : \A j \in free : i <= j

\* for i, v in enumerate(cls.__uno_list): if v == False: the first free index
\* (as a unit number, i + 1), or NoUnit when every slot is used.
first_free(list) ==
    LET free == {i \in Units : list[i] = FALSE}
    IN  IF free = {} THEN NoUnit ELSE CHOOSE i \in free : \A j \in free : i <= j

\* alloc_unitno: the scan of the table.
alloc_unitno_scan(t) ==
    /\ pc[t] = "alloc"
    /\ IF first_free(uno_list) = NoUnit
       THEN \* raise Exception("Unit number exceeds 255. ...")
            /\ exc' = [exc EXCEPT ![t] = local_error("exhausted")]
            /\ Goto(t, "raise")
            /\ UNCHANGED slot
       ELSE /\ slot' = [slot EXCEPT ![t] = first_free(uno_list)]
            /\ Goto(t, "mark")
            /\ UNCHANGED exc
    /\ UNCHANGED <<uno_list, isopen, ezcom, unitno, lock, op, ses, errcd, cont,
                   result, log, pre, lost, e2e, cfg, ext>>

\* alloc_unitno: cls.__uno_list[i] = True; return i + 1; then, back in __open,
\* self.__unitno = ...; self.__raise_error(errcd) for SetTCPIPProtocol's code.
alloc_unitno_mark(t) ==
    /\ pc[t] = "mark"
    /\ uno_list' = [uno_list EXCEPT ![slot[t]] = TRUE]
    /\ unitno' = [unitno EXCEPT ![ses[t]] = slot[t]]
    /\ Log(t, "alloc_unitno")
    /\ raise_error(t, errcd[t], "open2")
    /\ UNCHANGED <<isopen, ezcom, lock, op, ses, errcd, slot, result, pre, lost,
                   e2e, cfg, ext>>

\* errcd = self.__ezcom.Open2(6, self.__unitno, 30, 'EZNC_LOCALHOST');
\* self.__raise_error(errcd); self.__isopen = True
open_Open2(t) ==
    /\ pc[t] = "open2"
    /\ Log(t, "Open2")
    /\ \E c \in Codes :
         /\ Assign(t, c)
         /\ raise_error(t, c, "body")
         /\ isopen' = [isopen EXCEPT ![ses[t]] = IF returns_normally(c) THEN TRUE ELSE @]
    /\ UNCHANGED <<uno_list, ezcom, unitno, lock, op, ses, slot, result, pre, lost,
                   e2e, cfg, ext>>

-----------------------------------------------------------------------------
(* close *)

\* The first try block of close(): M700.release_unitno(self.__unitno);
\* self.__isopen = False; self.__ezcom.Close().  Reading self.__unitno raises
\* AttributeError while no unit number was ever assigned, and None.Close()
\* raises too; "except: pass" ends the block where it raised.  o is what the
\* Close() call does when it is reached.
close_releases(s) == unitno[s] # NoUnit

\* Variant: self.__isopen = False placed after self.__ezcom.Close(), so that a
\* Close() that raises skips it.
close_marks_closed_after_Close(s, o) == unitno[s] # NoUnit /\ ~o.err

\* self.__isopen = False stands before the Close() call: it is reached whenever
\* release_unitno was, whatever Close() does.
close_marks_closed(s, o) == unitno[s] # NoUnit

close_calls_Close(s) == unitno[s] # NoUnit /\ ezcom[s] # "None"

\* release_unitno(uno): cls.__uno_list[uno-1] = False
release_unitno(list, uno) == [list EXCEPT ![uno] = FALSE]

\* The name a call of close() is logged under: marked when the call raised.
\* The status code it returned is dropped by close().
Dropped(name, o) == IF o.err THEN name \o "!" ELSE name

close_Close(t) ==
    /\ pc[t] = "close1"
    /\ uno_list' = IF close_releases(ses[t])
                   THEN release_unitno(uno_list, unitno[ses[t]]) ELSE uno_list
    /\ \E o \in Outcomes :
         /\ isopen' = IF close_marks_closed(ses[t], o)
                      THEN [isopen EXCEPT ![ses[t]] = FALSE] ELSE isopen
         /\ IF close_calls_Close(ses[t])
            THEN Log(t, Dropped("Close", o))
            ELSE UNCHANGED log
    /\ Goto(t, "close2")
    /\ UNCHANGED <<ezcom, unitno, lock, op, ses, errcd, slot, cont, exc, result,
                   pre, lost, e2e, cfg, ext>>

\* The second try block: self.__ezcom.Release(), any exception caught (None has
\* no Release).  Then close() returns: to its caller, or into __raise_error,
\* which raises.
close_Release(t) ==
    /\ pc[t] = "close2"
    /\ IF ezcom[ses[t]] # "None"
       THEN \E o \in Outcomes : Log(t, Dropped("Release", o))
       ELSE UNCHANGED log
    /\ IF cont[t] = "done"
       THEN /\ result' = [result EXCEPT ![t] = Ok(FALSE)]
            /\ SetE2E(t, IF e2e[t] = E2E(ses[t], 1) THEN E2E(ses[t], 2) ELSE NoE2E)
            /\ Goto(t, "done")
       ELSE /\ Goto(t, cont[t])
            /\ UNCHANGED <<result, e2e>>
    /\ UNCHANGED <<uno_list, isopen, ezcom, unitno, lock, op, ses, errcd, slot,
                   cont, exc, pre, lost, cfg, ext>>

-----------------------------------------------------------------------------
(* is_open *)

\* Variant: is_open() that never reports an open session ("return False").
is_open_value_never(s) == FALSE

\* return self.__isopen
is_open_value(s) == isopen[s]

\* try: self.__open() / except: pass / return self.__isopen
is_open_return(t) ==
    /\ pc[t] \in {"body", "raise"}
    /\ op[t] = "is_open"
    /\ result' = [result EXCEPT ![t] = Ok(is_open_value(ses[t]))]
    /\ SetE2E(t, NoE2E)
    /\ Unlock
    /\ Goto(t, "done")
    /\ UNCHANGED <<uno_list, isopen, ezcom, unitno, op, ses, errcd, slot, cont, exc,
                   log, pre, lost, cfg, ext>>

-----------------------------------------------------------------------------
(* get_drive_infomation: the telemetry read; every one-call getter has its shape *)

\* errcd, drive_info = self.__ezcom.File_GetDriveInformation();
\* self.__raise_error(errcd); return drive_info[0:4]
get_drive_infomation_call(t) ==
    /\ pc[t] = "body"
    /\ op[t] = "get_drive_infomation"
    /\ Log(t, "File_GetDriveInformation")
    /\ \E c \in Codes :
         /\ Assign(t, c)
         /\ SetLost(ses[t], lost[ses[t]] \/ c \in LostCodes)
         /\ raise_error(t, c, "done")
         /\ IF returns_normally(c)
            THEN /\ result' = [result EXCEPT ![t] = Ok(TRUE)]
                 /\ SetE2E(t, E2E(ses[t], 1))
                 /\ Unlock
            ELSE UNCHANGED <<result, lock, e2e>>
    /\ UNCHANGED <<uno_list, isopen, ezcom, unitno, op, ses, slot, pre, cfg, ext>>

\* An exception leaves the with block of a guarded operation that does not
\* catch it: the lock is released and the exception reaches the caller.
guarded_raises(t) ==
    /\ \/ pc[t] = "raise" /\ op[t] \in Guarded \ {"is_open", "find_dir"}
       \/ pc[t] = "reraise"
    /\ result' = [result EXCEPT ![t] = Raised]
    /\ SetE2E(t, NoE2E)
    /\ Unlock
    /\ Goto(t, "done")
    /\ UNCHANGED <<uno_list, isopen, ezcom, unitno, op, ses, errcd, slot, cont, exc,
                   log, pre, lost, cfg, ext>>

-----------------------------------------------------------------------------
(* read_file and write_file *)

FileOps == {"read_file", "write_file"}

\* File_ReadFile2 (256): the size of the block requested
ChunkSize == 256

\* Sizes of the remote file a path names: around the multiples of the block.
FileSizes == {n \in {k * ChunkSize + r : k \in 0..MaxBlocks, r \in {0, 1, ChunkSize - 1}} :
                 n <= MaxBlocks * ChunkSize}

\* The endpoint delivers the next bytes of a file with n bytes left: a full
\* block, or what is left.
next_chunk(size, left) ==
    [from |-> size - left, len |-> IF left < ChunkSize THEN left ELSE ChunkSize]

\* Variant: the loop left after any block that is not longer than requested
\* ("if len (data) <= 256: break").
read_ends_at_full_block(n) == n <= 256

\* if len (data) <256: break
read_ends(n) == n < 256

\* Variant: File_CloseFile2 () called without the try/except around it.
close_file_failure_escapes(o) == o.err

\* try: self.__ezcom.File_CloseFile2 () / except: pass -- nothing that
\* File_CloseFile2 does leaves the finally clause.
close_file_raises(o) == FALSE

\* m700.read_file(path): the path names a remote file of n bytes.
read_file(t, s, n) ==
    /\ enter(t, s, "read_file")
    /\ arg' = [arg EXCEPT ![t] = [NoArg EXCEPT !.size = n]]
    /\ Goto(t, "open")
    /\ UNCHANGED <<exc, path, buf, remote, dropcd>>

\* m700.write_file(path, data)
write_file(t, s) ==
    /\ enter(t, s, "write_file")
    /\ Goto(t, "open")
    /\ UNCHANGED <<exc, locals>>

\* try: errcd = self.__ezcom.File_OpenFile3 (path, mode);
\* self.__raise_error (errcd); result = b''
file_OpenFile3(t) ==
    /\ pc[t] = "body"
    /\ op[t] \in FileOps
    /\ Log(t, "File_OpenFile3")
    /\ \E c \in Codes :
         /\ Assign(t, c)
         /\ raise_error_in_try(t, c, IF op[t] = "read_file" THEN "read" ELSE "write",
                               "finally_exc")
    /\ remote' = [remote EXCEPT ![t] = arg[t].size]
    /\ UNCHANGED <<uno_list, isopen, ezcom, unitno, lock, op, ses, slot, result, pre,
                   lost, e2e, cfg, connections, constructed, arg, path, buf, dropcd>>

\* errcd, data = self.__ezcom.File_ReadFile2 (256); self.__raise_error (errcd);
\* result += data; if len (data) <256: break -- and then return result, which
\* goes through the finally clause.
read_file_ReadFile2(t) ==
    /\ pc[t] = "read"
    /\ Log(t, "File_ReadFile2")
    /\ \E c \in Codes :
         LET data == next_chunk(arg[t].size, remote[t])
         IN  /\ Assign(t, c)
             /\ raise_error_in_try(t, c, IF read_ends(data.len) THEN "finally_ok" ELSE "read",
                                   "finally_exc")
             /\ IF returns_normally(c)
                THEN /\ buf' = [buf EXCEPT ![t] = Append(@, data)]
                     /\ remote' = [remote EXCEPT ![t] = @ - data.len]
                ELSE UNCHANGED <<buf, remote>>
    /\ UNCHANGED <<uno_list, isopen, ezcom, unitno, lock, op, ses, slot, result, pre,
                   lost, e2e, cfg, connections, constructed, arg, path, dropcd>>

\* errcd = self.__ezcom.File_WriteFile (memoryview (data)); self.__raise_error (errcd)
write_file_WriteFile(t) ==
    /\ pc[t] = "write"
    /\ Log(t, "File_WriteFile")
    /\ \E c \in Codes :
         /\ Assign(t, c)
         /\ raise_error_in_try(t, c, "finally_ok", "finally_exc")
    /\ UNCHANGED <<uno_list, isopen, ezcom, unitno, lock, op, ses, slot, result, pre,
                   lost, e2e, cfg, ext>>

\* finally: try: self.__ezcom.File_CloseFile2 () / except: pass.  The status
\* code the call returns is not assigned.  Then the operation returns its
\* result, or the exception that reached the finally clause goes on.
file_CloseFile2(t) ==
    /\ pc[t] \in {"finally_ok", "finally_exc"}
    /\ op[t] \in FileOps
    /\ \E o \in Outcomes :
         /\ Log(t, Dropped("File_CloseFile2", o))
         /\ dropcd' = [dropcd EXCEPT ![t] = o.code]
         /\ IF close_file_raises(o)
            THEN /\ exc' = [exc EXCEPT ![t] = local_error("com")]
                 /\ Goto(t, "raise")
                 /\ UNCHANGED <<result, lock, e2e>>
            ELSE IF pc[t] = "finally_ok"
            THEN /\ result' = [result EXCEPT ![t] = Ok(TRUE)]
                 /\ SetE2E(t, NoE2E)
                 /\ Unlock
                 /\ Goto(t, "done")
                 /\ UNCHANGED exc
            ELSE /\ Goto(t, "raise")
                 /\ UNCHANGED <<exc, result, lock, e2e>>
    /\ UNCHANGED <<uno_list, isopen, ezcom, unitno, op, ses, errcd, slot, cont, pre,
                   lost, cfg, connections, constructed, arg, path, buf, remote>>

-----------------------------------------------------------------------------
(* find_dir *)

\* Paths the callers pass, as character sequences: with the token at the
\* start, with the token twice, and without it.
Paths == { <<"M", "0", "1", ":", "P">>,
           <<"x", "M", "0", "1", "M", "0", "1">>,
           <<"M", "0", "M", "1">> }

\* str.replace(old, new): every occurrence, left to right, not overlapping
RECURSIVE replace(_, _, _)
replace(s, old, new) ==
    IF Len(s) < Len(old) THEN s
    ELSE IF SubSeq(s, 1, Len(old)) = old
         THEN new \o replace(SubSeq(s, Len(old) + 1, Len(s)), old, new)
         ELSE <<s[1]>> \o replace(Tail(s), old, new)

HexDigitsUpper == <<"0", "1", "2", "3", "4", "5", "6", "7", "8", "9",
                    "A", "B", "C", "D", "E", "F">>

\* format(n, 'X') for n >= 0, as a character sequence
RECURSIVE format_X(_)
format_X(n) ==
    IF n < 16 THEN <<HexDigitsUpper[n + 1]>>
    ELSE format_X(n \div 16) \o <<HexDigitsUpper[(n % 16) + 1]>>

\* k zeros
zeros(k) == [i \in 1..k |-> "0"]

\* "{: 02X}".format(n) for n >= 0: the format spec " 02X" asks for a space in
\* the place of the sign, then zeros up to a width of 2 (sign included), then
\* the uppercase hexadecimal digits.
format_sp02X(n) ==
    LET digits == format_X(n)
        fill == IF 1 + Len(digits) < 2 THEN 2 - 1 - Len(digits) ELSE 0
    IN  <<" ">> \o zeros(fill) \o digits

\* "M {: 02X}". format (self.__unitno)
unit_token(uno) == <<"M", " ">> \o format_sp02X(uno)

\* path = path.replace ("M01", "M {: 02X}". format (self.__unitno))
find_dir_path(p, uno) == replace(p, <<"M", "0", "1">>, unit_token(uno))

\* Status codes of the find calls: those of every call, and 2, the code
\* above 1 that announces an entry.
DirCodes == Codes \cup {2}

\* if errcd> 1: the response carries an entry
has_entry(c) == c > 1

\* The codes the endpoint can answer a find call of thread t with: it reports
\* at most MaxEntries entries.
FindCodes(t) == {c \in DirCodes : has_entry(c) => Len(buf[t]) < MaxEntries}

\* info.split ('\ t') gives 1 to 3 parts, as the endpoint words the entry.
InfoParts == 1..3

\* The parts a record is built from: dir_info [1] for a folder, dir_info [2]
\* for a file; a shorter list raises IndexError.
parts_needed(type) == IF type = "folder" THEN 2 ELSE 3

\* m700.find_dir(path): result = []; try: self.__open ()
find_dir(t, s, p) ==
    /\ enter(t, s, "find_dir")
    /\ arg' = [arg EXCEPT ![t] = [NoArg EXCEPT !.path = p]]
    /\ Goto(t, "open")
    /\ UNCHANGED <<exc, path, buf, remote, dropcd>>

\* path = path.replace (...); errcd, info = self.__ezcom.File_FindDir2 (path, -1);
\* self.__raise_error (errcd)
find_dir_FindDir2_folders(t) ==
    /\ pc[t] = "body"
    /\ op[t] = "find_dir"
    /\ path' = [path EXCEPT ![t] = find_dir_path(arg[t].path, unitno[ses[t]])]
    /\ Log(t, "File_FindDir2")
    /\ \E c \in FindCodes(t), n \in InfoParts :
         /\ Assign(t, c)
         /\ remote' = [remote EXCEPT ![t] = n]
         /\ raise_error(t, c, "folders")
    /\ UNCHANGED <<uno_list, isopen, ezcom, unitno, lock, op, ses, slot, result, pre,
                   lost, e2e, cfg, connections, constructed, arg, buf, dropcd>>

\* The pass the loop of thread t is in.
pass_type(t) == IF pc[t] = "folders" THEN "folder" ELSE "file"

\* while True: if errcd> 1: dir_info = info.split ('\ t'); data = {...};
\* result.append (data); errcd, info = self.__ezcom.File_FindNextDir2 ();
\* self.__raise_error (errcd)
find_dir_FindNextDir2(t) ==
    /\ pc[t] \in {"folders", "files"}
    /\ has_entry(errcd[t])
    /\ IF remote[t] < parts_needed(pass_type(t))
       THEN \* dir_info [1] or dir_info [2]: IndexError
            /\ exc' = [exc EXCEPT ![t] = local_error("index")]
            /\ Goto(t, "raise")
            /\ UNCHANGED <<errcd, buf, remote, log, cont>>
       ELSE /\ buf' = [buf EXCEPT ![t] = Append(@, [type |-> pass_type(t)])]
            /\ Log(t, "File_FindNextDir2")
            /\ \E c \in {c2 \in DirCodes : has_entry(c2) => Len(buf[t]) + 1 < MaxEntries},
                  n \in InfoParts :
                 /\ Assign(t, c)
                 /\ remote' = [remote EXCEPT ![t] = n]
                 /\ raise_error(t, c, pc[t])
    /\ UNCHANGED <<uno_list, isopen, ezcom, unitno, lock, op, ses, slot, result, pre,
                   lost, e2e, cfg, connections, constructed, arg, path, dropcd>>

\* else: break; then, after the first pass:
\* errcd = self.__ezcom.File_ResetDir (); self.__raise_error (errcd)
find_dir_ResetDir(t) ==
    /\ pc[t] = "folders"
    /\ ~has_entry(errcd[t])
    /\ Log(t, "File_ResetDir")
    /\ \E c \in Codes :
         /\ Assign(t, c)
         /\ raise_error(t, c, "reset")
    /\ UNCHANGED <<uno_list, isopen, ezcom, unitno, lock, op, ses, slot, result, pre,
                   lost, e2e, cfg, ext>>

\* errcd, info = self.__ezcom.File_FindDir2 (path, 5); self.__raise_error (errcd)
find_dir_FindDir2_files(t) ==
    /\ pc[t] = "reset"
    /\ Log(t, "File_FindDir2")
    /\ \E c \in FindCodes(t), n \in InfoParts :
         /\ Assign(t, c)
         /\ remote' = [remote EXCEPT ![t] = n]
         /\ raise_error(t, c, "files")
    /\ UNCHANGED <<uno_list, isopen, ezcom, unitno, lock, op, ses, slot, result, pre,
                   lost, e2e, cfg, connections, constructed, arg, path, buf, dropcd>>

\* Variant: the final reset called without the try/except around it.
final_reset_failure_escapes(o) == o.err \/ ~returns_normally(o.code)

\* try: errcd = self.__ezcom.File_ResetDir (); self.__raise_error (errcd)
\* / except: pass -- nothing that the final reset does leaves the finally
\* clause.
final_reset_raises(o) == FALSE

\* finally: try: errcd = self.__ezcom.File_ResetDir (); self.__raise_error (errcd)
\* / except: pass.  Reached when the second pass ends and by every exception
\* of the try block, those of self.__open () included.  What is raised in it is
\* dropped, after the close() of a connection-lost code; then the exception
\* that came in goes on, or find_dir returns.
find_dir_finally(t) ==
    /\ op[t] = "find_dir"
    /\ \/ pc[t] = "files" /\ ~has_entry(errcd[t])
       \/ pc[t] = "raise"
    /\ \E o \in Outcomes :
         LET after == IF pc[t] = "raise" \/ final_reset_raises(o)
                      THEN "reraise" ELSE "return"
         IN  /\ Log(t, Dropped("File_ResetDir", o))
             /\ exc' = IF final_reset_raises(o)
                       THEN [exc EXCEPT ![t] = IF o.err THEN local_error("com")
                                               ELSE remote_error(ses[t], o.code)]
                       ELSE exc
             /\ IF o.err
                THEN Goto(t, after) /\ UNCHANGED <<errcd, cont>>
                ELSE /\ Assign(t, o.code)
                     /\ IF ~returns_normally(o.code) /\ closes_session(o.code)
                        THEN Goto(t, "close1") /\ cont' = [cont EXCEPT ![t] = after]
                        ELSE Goto(t, after) /\ UNCHANGED cont
    /\ UNCHANGED <<uno_list, isopen, ezcom, unitno, lock, op, ses, slot, result,
                   pre, lost, e2e, cfg, ext>>

\* return result
find_dir_return(t) ==
    /\ pc[t] = "return"
    /\ result' = [result EXCEPT ![t] = Ok(TRUE)]
    /\ SetE2E(t, NoE2E)
    /\ Unlock
    /\ Goto(t, "done")
    /\ UNCHANGED <<uno_list, isopen, ezcom, unitno, op, ses, errcd, slot, cont, exc,
                   log, pre, lost, cfg, ext>>

-----------------------------------------------------------------------------
(* get_current_position and get_program_number: getters with a selector *)

SelOps == {"get_current_position", "get_program_number"}

\* Values the callers pass as selector: M700.Position.X, M700.ProgramType.MAIN
\* and the plain integer 1.
Selectors == { [cls |-> "Position", value |-> 1],
               [cls |-> "ProgramType", value |-> 0],
               [cls |-> "int", value |-> 1] }

\* The enumeration an operation asks for.
required_class(o) == IF o = "get_current_position" THEN "Position" ELSE "ProgramType"

\* Variant: any member of an enumeration of M700 is let through
\* ("isinstance(axisno, Enum)").
selector_ok_any_enum(o, sel) == sel.cls \in {"Position", "ProgramType"}

\* isinstance(axisno, M700.Position), isinstance (progtype, M700.ProgramType)
selector_ok(o, sel) == sel.cls = required_class(o)

\* with self.__lock: if not isinstance(...): raise Exception(...); then
\* self.__open() is next.
selected(t, s, o, sel) ==
    /\ enter(t, s, o)
    /\ arg' = [arg EXCEPT ![t] = [NoArg EXCEPT !.sel = sel]]
    /\ IF selector_ok(o, sel)
       THEN Goto(t, "open") /\ UNCHANGED exc
       ELSE Goto(t, "raise") /\ exc' = [exc EXCEPT ![t] = local_error("selector")]
    /\ UNCHANGED <<path, buf, remote, dropcd>>

get_current_position(t, s, axisno) == selected(t, s, "get_current_position", axisno)

get_program_number(t, s, progtype) == selected(t, s, "get_program_number", progtype)

\* The endpoint call of the getter.
selected_call_name(o) ==
    IF o = "get_current_position" THEN "Position_GetCurrentPosition"
    ELSE "Program_GetProgramNumber2"

\* errcd, pos = self.__ezcom.Position_GetCurrentPosition(axisno.value), or
\* errcd, msg = self.__ezcom.Program_GetProgramNumber2 (progtype.value);
\* self.__raise_error(errcd); return pos, or msg
selected_call(t) ==
    /\ pc[t] = "body"
    /\ op[t] \in SelOps
    /\ Log(t, selected_call_name(op[t]))
    /\ \E c \in Codes :
         /\ Assign(t, c)
         /\ raise_error(t, c, "done")
         /\ IF returns_normally(c)
            THEN /\ result' = [result EXCEPT ![t] = Ok(TRUE)]
                 /\ SetE2E(t, NoE2E)
                 /\ Unlock
            ELSE UNCHANGED <<result, lock, e2e>>
    /\ UNCHANGED <<uno_list, isopen, ezcom, unitno, op, ses, slot, pre, lost, cfg, ext>>

-----------------------------------------------------------------------------
(* set_tool_offset_h and set_tool_offset_d *)

ToolOps == {"set_tool_offset_h", "set_tool_offset_d"}

\* The names a method can use without assigning them: its parameters.
Parameters(o) ==
    IF o = "set_tool_offset_h" THEN {"self", "toolset_no", "h"}
    ELSE {"self", "toolset_no", "d"}

\* The names bound at module level: what the module imports, and the class.
Globals == {"Enum", "threading", "pythoncom", "win32com", "VARIANT", "M700"}

\* Whether the name, which the method does not assign, is bound where the
\* method reads it: a parameter, else a global; reading any other name raises
\* NameError.
name_bound(o, name) == name \in Parameters(o) \cup Globals

\* m700.set_tool_offset_h(toolset_no, h)
set_tool_offset_h(t, s) == guarded(t, s, "set_tool_offset_h")

\* m700.set_tool_offset_d(toolset_no, d)
set_tool_offset_d(t, s) == guarded(t, s, "set_tool_offset_d")

\* The name an offset-set call is logged under, with its kind of offset:
\* 0 = length, 2 = diameter.
SetOffsetName(kind) == IF kind = 0 THEN "Tool_SetOffset(4, 0)" ELSE "Tool_SetOffset(4, 2)"

\* set_tool_offset_h: errcd = self.__ezcom.Tool_SetOffset (4, 0, toolset_no, h, 0);
\* self.__raise_error (errcd)
tool_SetOffset_length(t) ==
    /\ pc[t] = "body"
    /\ op[t] = "set_tool_offset_h"
    /\ Log(t, SetOffsetName(0))
    /\ \E c \in Codes :
         /\ Assign(t, c)
         /\ raise_error(t, c, "diameter")
    /\ UNCHANGED <<uno_list, isopen, ezcom, unitno, lock, op, ses, slot, result, pre,
                   lost, e2e, cfg, ext>>

\* errcd = self.__ezcom.Tool_SetOffset (4, 2, toolset_no, d, 0);
\* self.__raise_error (errcd): the only call of set_tool_offset_d, and the
\* statement after the length call in set_tool_offset_h.  The arguments are
\* read before the call is made.
tool_SetOffset_diameter(t) ==
    /\ op[t] \in ToolOps
    /\ pc[t] = IF op[t] = "set_tool_offset_h" THEN "diameter" ELSE "body"
    /\ IF ~name_bound(op[t], "d")
       THEN /\ exc' = [exc EXCEPT ![t] = local_error("name")]
            /\ Goto(t, "raise")
            /\ UNCHANGED <<errcd, cont, log, result, lock, e2e>>
       ELSE /\ Log(t, SetOffsetName(2))
            /\ \E c \in Codes :
                 /\ Assign(t, c)
                 /\ raise_error(t, c, "done")
                 /\ IF returns_normally(c)
                    THEN /\ result' = [result EXCEPT ![t] = Ok(TRUE)]
                         /\ SetE2E(t, NoE2E)
                         /\ Unlock
                    ELSE UNCHANGED <<result, lock, e2e>>
    /\ UNCHANGED <<uno_list, isopen, ezcom, unitno, op, ses, slot, pre, lost, cfg, ext>>

-----------------------------------------------------------------------------
(* read_dev and write_dev *)

DevOps == {"read_dev", "write_dev"}

\* Device identifiers the callers pass, as character sequences: M810, D10, X1
\* and the empty string.
Devs == { <<"M", "8", "1", "0">>, <<"D", "1", "0">>, <<"X", "1">>, <<>> }

\* dev [0] raises IndexError on the empty string.
has_first(dev) == Len(dev) > 0

\* data_type = 0; if dev [0] == 'M': data_type = 1; elif dev[0] == 'D':
\* data_type = 4; else: Exception('Set M device or D device.') -- the
\* exception is made and not raised.
data_type(dev) == IF dev[1] = "M" THEN 1 ELSE IF dev[1] = "D" THEN 4 ELSE 0

\* Whether __setting_dev raises for the device: the else branch makes its
\* exception without a raise statement.
setting_dev_raises(dev) == FALSE

\* m700.read_dev(dev)
read_dev(t, s, dev) ==
    /\ enter(t, s, "read_dev")
    /\ arg' = [arg EXCEPT ![t] = [NoArg EXCEPT !.dev = dev]]
    /\ Goto(t, "open")
    /\ UNCHANGED <<exc, path, buf, remote, dropcd>>

\* m700.write_dev(dev, data)
write_dev(t, s, dev) ==
    /\ enter(t, s, "write_dev")
    /\ arg' = [arg EXCEPT ![t] = [NoArg EXCEPT !.dev = dev]]
    /\ Goto(t, "open")
    /\ UNCHANGED <<exc, path, buf, remote, dropcd>>

\* __setting_dev: the data type is worked out, then
\* errcd = self.__ezcom.Device_SetDevice(vDevice, vDataType, vValue);
\* self.__raise_error(errcd).  remote keeps the data type the endpoint got.
setting_dev(t) ==
    /\ pc[t] = "body"
    /\ op[t] \in DevOps
    /\ IF ~has_first(arg[t].dev)
       THEN /\ exc' = [exc EXCEPT ![t] = local_error("index")]
            /\ Goto(t, "raise")
            /\ UNCHANGED <<errcd, log, cont, remote>>
       ELSE IF setting_dev_raises(arg[t].dev)
       THEN /\ exc' = [exc EXCEPT ![t] = local_error("unsupported")]
            /\ Goto(t, "raise")
            /\ UNCHANGED <<errcd, log, cont, remote>>
       ELSE /\ Log(t, "Device_SetDevice")
            /\ remote' = [remote EXCEPT ![t] = data_type(arg[t].dev)]
            /\ \E c \in Codes :
                 /\ Assign(t, c)
                 /\ raise_error(t, c, IF op[t] = "read_dev" THEN "dev_read" ELSE "dev_write")
    /\ UNCHANGED <<uno_list, isopen, ezcom, unitno, lock, op, ses, slot, result, pre,
                   lost, e2e, cfg, connections, constructed, arg, path, buf, dropcd>>

\* errcd, value = self.__ezcom.Device_Read(); self.__raise_error(errcd)
read_dev_Device_Read(t) ==
    /\ pc[t] = "dev_read"
    /\ Log(t, "Device_Read")
    /\ \E c \in Codes :
         /\ Assign(t, c)
         /\ raise_error(t, c, "delall")
    /\ UNCHANGED <<uno_list, isopen, ezcom, unitno, lock, op, ses, slot, result, pre,
                   lost, e2e, cfg, ext>>

\* errcd = self.__ezcom.Device_Write(): the code is kept while
\* self.__delall_dev() runs.
write_dev_Device_Write(t) ==
    /\ pc[t] = "dev_write"
    /\ Log(t, "Device_Write")
    /\ \E c \in Codes : Assign(t, c)
    /\ Goto(t, "delall")
    /\ UNCHANGED <<uno_list, isopen, ezcom, unitno, lock, op, ses, slot, cont, exc,
                   result, pre, lost, e2e, cfg, ext>>

\* The status code the operation judges last, after Device_DeleteAll returned
\* c in __delall_dev, which judges c itself: read_dev returns next;
\* write_dev goes on to self.__raise_error(errcd) with Device_Write's code.
judged_after_delall(o, c, written) ==
    IF ~returns_normally(c) THEN c
    ELSE IF o = "write_dev" THEN written ELSE c

\* self.__delall_dev(): errcd = self.__ezcom.Device_DeleteAll();
\* self.__raise_error(errcd), with an errcd of its own; then return value[0]
\* in read_dev, self.__raise_error(errcd) in write_dev.
dev_DeleteAll(t) ==
    /\ pc[t] = "delall"
    /\ Log(t, "Device_DeleteAll")
    /\ \E c \in Codes :
         LET judged == judged_after_delall(op[t], c, errcd[t])
         IN  /\ raise_error(t, judged, "done")
             /\ IF returns_normally(judged)
                THEN /\ result' = [result EXCEPT ![t] = Ok(TRUE)]
                     /\ SetE2E(t, NoE2E)
                     /\ Unlock
                ELSE UNCHANGED <<result, lock, e2e>>
    /\ UNCHANGED <<uno_list, isopen, ezcom, unitno, op, ses, errcd, slot, pre, lost,
                   cfg, ext>>

-----------------------------------------------------------------------------
(* get_connection: the registry of instances *)

\* Hosts the callers pass, as character sequences: two "ip:port" strings and
\* one string without a colon.
Hosts == { <<"1", "0", ":", "1">>, <<"0", ":", "1">>, <<"0">> }

\* threading.current_thread().ident of thread t: a nonzero integer, different
\* for threads that are alive at the same time.
ident(t) == IF t = 1 THEN 1 ELSE 10 * t - 9

DecDigits == <<"0", "1", "2", "3", "4", "5", "6", "7", "8", "9">>

\* str(n) for n >= 0, as a character sequence
RECURSIVE str(_)
str(n) ==
    IF n < 10 THEN <<DecDigits[n + 1]>>
    ELSE str(n \div 10) \o <<DecDigits[(n % 10) + 1]>>

\* Variant: the key built without the separator (str(ident) + host).
connection_key_unseparated(t, h) == str(ident(t)) \o h

\* key = str(threading.current_thread().ident) + "_" + host
connection_key(t, h) == str(ident(t)) \o <<"_">> \o h

\* host.split(':'): the number of parts
split_parts(h) == 1 + Cardinality({i \in 1..Len(h) : h[i] = ":"})

\* self.__ip, self.__port = host.split(':') unpacks exactly two parts.
init_unpacks(h) == split_parts(h) = 2

\* The instance M700(host) makes: one that did not exist.
new_instance == CHOOSE s \in Sessions \ constructed : \A s2 \in Sessions \ constructed : s <= s2

\* M700.get_connection(host) is called: key = ...; if key not in cls.__connections
get_connection(t, h) ==
    /\ t \in cfg.threads /\ pc[t] = "idle"
    /\ op' = [op EXCEPT ![t] = "get_connection"]
    /\ arg' = [arg EXCEPT ![t] = [NoArg EXCEPT !.host = h]]
    /\ Goto(t, IF connection_key(t, h) \in DOMAIN connections THEN "found" ELSE "construct")
    /\ UNCHANGED <<uno_list, isopen, ezcom, unitno, lock, ses, errcd, slot, cont,
                   exc, result, log, pre, lost, e2e, cfg, connections, constructed,
                   path, buf, remote, dropcd>>

\* cls.__connections[key] = M700(host): __init__ raises when host does not
\* split in two, and then nothing is stored.
get_connection_construct(t) ==
    /\ pc[t] = "construct"
    /\ IF init_unpacks(arg[t].host)
       THEN /\ Sessions \ constructed # {}
            /\ constructed' = constructed \cup {new_instance}
            /\ connections' = connections @@ (connection_key(t, arg[t].host) :> new_instance)
            /\ Goto(t, "found")
            /\ UNCHANGED <<exc, result>>
       ELSE /\ exc' = [exc EXCEPT ![t] = local_error("host")]
            /\ result' = [result EXCEPT ![t] = Raised]
            /\ Goto(t, "done")
            /\ UNCHANGED <<connections, constructed>>
    /\ UNCHANGED <<uno_list, isopen, ezcom, unitno, lock, op, ses, errcd, slot, cont,
                   log, pre, lost, e2e, cfg, locals>>

\* return cls.__connections[key]
get_connection_return(t) ==
    /\ pc[t] = "found"
    /\ result' = [result EXCEPT ![t] = Got(connections[connection_key(t, arg[t].host)])]
    /\ Goto(t, "done")
    /\ UNCHANGED <<uno_list, isopen, ezcom, unitno, lock, op, ses, errcd, slot, cont,
                   exc, log, pre, lost, e2e, cfg, ext>>

-----------------------------------------------------------------------------
(* The caller has the outcome; the thread is free for its next operation *)

Return(t) ==
    /\ pc[t] = "done"
    /\ Goto(t, "idle")
    /\ op' = [op EXCEPT ![t] = "none"]
    /\ ses' = [ses EXCEPT ![t] = 1]
    /\ errcd' = [errcd EXCEPT ![t] = 0]
    /\ slot' = [slot EXCEPT ![t] = NoUnit]
    /\ cont' = [cont EXCEPT ![t] = "done"]
    /\ exc' = [exc EXCEPT ![t] = NoExc]
    /\ result' = [result EXCEPT ![t] = NoResult]
    /\ log' = [log EXCEPT ![t] = <<>>]
    /\ pre' = [pre EXCEPT ![t] = NoPre]
    /\ arg' = [arg EXCEPT ![t] = NoArg]
    /\ path' = [path EXCEPT ![t] = <<>>]
    /\ buf' = [buf EXCEPT ![t] = <<>>]
    /\ remote' = [remote EXCEPT ![t] = 0]
    /\ dropcd' = [dropcd EXCEPT ![t] = 0]
    /\ UNCHANGED <<uno_list, isopen, ezcom, unitno, lock, lost, e2e, cfg,
                   connections, constructed>>

-----------------------------------------------------------------------------

Next ==
    \E t \in Threads :
        \/ \E s \in Sessions : close(t, s)
        \/ \E s \in Sessions : is_open(t, s)
        \/ \E s \in Sessions : get_drive_infomation(t, s)
        \/ open_noop(t)
        \/ open_SetTCPIPProtocol(t)
        \/ alloc_unitno_scan(t)
        \/ alloc_unitno_mark(t)
        \/ open_Open2(t)
        \/ close_Close(t)
        \/ close_Release(t)
        \/ is_open_return(t)
        \/ get_drive_infomation_call(t)
        \/ guarded_raises(t)
        \/ Return(t)

Spec == Init /\ [][Next]_vars

\* The same program, with the observers of the connection-lost history and of
\* the caller's read, close(), is_open() sequence kept up to date.
InitLost == InitDirect /\ cfg = [threads |-> {1}, observe |-> {"log", "pre", "lost"}]
SpecLost == InitLost /\ [][Next]_vars

InitE2E == InitDirect /\ cfg = [threads |-> {1}, observe |-> {"log", "pre", "e2e"}]
SpecE2E == InitE2E /\ [][Next]_vars

\* One thread reads and writes files through one instance.
NextFile ==
    \E t \in Threads :
        \/ \E s \in Sessions, n \in FileSizes : read_file(t, s, n)
        \/ \E s \in Sessions : write_file(t, s)
        \/ open_noop(t)
        \/ open_SetTCPIPProtocol(t)
        \/ alloc_unitno_scan(t)
        \/ alloc_unitno_mark(t)
        \/ open_Open2(t)
        \/ file_OpenFile3(t)
        \/ read_file_ReadFile2(t)
        \/ write_file_WriteFile(t)
        \/ file_CloseFile2(t)
        \/ close_Close(t)
        \/ close_Release(t)
        \/ guarded_raises(t)
        \/ Return(t)

\* One instance, made by its constructor, used by one thread.
InitOne ==
    /\ InitShared /\ constructed = {1}
    /\ cfg = [threads |-> {1}, observe |-> {"log", "pre"}]

SpecFile == InitOne /\ [][NextFile]_vars

\* One thread lists directories through one instance.
NextDir ==
    \E t \in Threads :
        \/ \E s \in Sessions, p \in Paths : find_dir(t, s, p)
        \/ open_noop(t)
        \/ open_SetTCPIPProtocol(t)
        \/ alloc_unitno_scan(t)
        \/ alloc_unitno_mark(t)
        \/ open_Open2(t)
        \/ find_dir_FindDir2_folders(t)
        \/ find_dir_FindNextDir2(t)
        \/ find_dir_ResetDir(t)
        \/ find_dir_FindDir2_files(t)
        \/ find_dir_finally(t)
        \/ find_dir_return(t)
        \/ close_Close(t)
        \/ close_Release(t)
        \/ guarded_raises(t)
        \/ Return(t)

SpecDir == InitOne /\ [][NextDir]_vars

\* One thread calls the getters that take a selector.
NextSelected ==
    \E t \in Threads :
        \/ \E s \in Sessions, sel \in Selectors : get_current_position(t, s, sel)
        \/ \E s \in Sessions, sel \in Selectors : get_program_number(t, s, sel)
        \/ open_noop(t)
        \/ open_SetTCPIPProtocol(t)
        \/ alloc_unitno_scan(t)
        \/ alloc_unitno_mark(t)
        \/ open_Open2(t)
        \/ selected_call(t)
        \/ close_Close(t)
        \/ close_Release(t)
        \/ guarded_raises(t)
        \/ Return(t)

SpecSelected == InitOne /\ [][NextSelected]_vars

\* One thread sets tool offsets through one instance.
NextTool ==
    \E t \in Threads :
        \/ \E s \in Sessions : set_tool_offset_h(t, s)
        \/ \E s \in Sessions : set_tool_offset_d(t, s)
        \/ open_noop(t)
        \/ open_SetTCPIPProtocol(t)
        \/ alloc_unitno_scan(t)
        \/ alloc_unitno_mark(t)
        \/ open_Open2(t)
        \/ tool_SetOffset_length(t)
        \/ tool_SetOffset_diameter(t)
        \/ close_Close(t)
        \/ close_Release(t)
        \/ guarded_raises(t)
        \/ Return(t)

SpecTool == InitOne /\ [][NextTool]_vars

\* One thread reads and writes devices through one instance.
NextDev ==
    \E t \in Threads :
        \/ \E s \in Sessions, dev \in Devs : read_dev(t, s, dev)
        \/ \E s \in Sessions, dev \in Devs : write_dev(t, s, dev)
        \/ open_noop(t)
        \/ open_SetTCPIPProtocol(t)
        \/ alloc_unitno_scan(t)
        \/ alloc_unitno_mark(t)
        \/ open_Open2(t)
        \/ setting_dev(t)
        \/ read_dev_Device_Read(t)
        \/ write_dev_Device_Write(t)
        \/ dev_DeleteAll(t)
        \/ close_Close(t)
        \/ close_Release(t)
        \/ guarded_raises(t)
        \/ Return(t)

SpecDev == InitOne /\ [][NextDev]_vars

\* Two threads use one instance, which one of them handed to the other.
NextThreads ==
    \E t \in Threads :
        \/ \E s \in Sessions : close(t, s)
        \/ \E s \in Sessions : is_open(t, s)
        \/ open_noop(t)
        \/ open_SetTCPIPProtocol(t)
        \/ alloc_unitno_scan(t)
        \/ alloc_unitno_mark(t)
        \/ open_Open2(t)
        \/ close_Close(t)
        \/ close_Release(t)
        \/ is_open_return(t)
        \/ Return(t)

InitThreads ==
    /\ InitShared /\ constructed = {1}
    /\ cfg = [threads |-> {1, 2}, observe |-> {"log"}]

SpecThreads == InitThreads /\ [][NextThreads]_vars

\* The instance get_connection makes for thread t, one for each thread.
instance_of(t) == t

\* Two threads use the guarded operations, each thread on its instance.
NextShared ==
    \E t \in Threads :
        \/ is_open(t, instance_of(t))
        \/ get_drive_infomation(t, instance_of(t))
        \/ open_noop(t)
        \/ open_SetTCPIPProtocol(t)
        \/ alloc_unitno_scan(t)
        \/ alloc_unitno_mark(t)
        \/ open_Open2(t)
        \/ close_Close(t)
        \/ close_Release(t)
        \/ is_open_return(t)
        \/ get_drive_infomation_call(t)
        \/ guarded_raises(t)
        \/ Return(t)

InitTwo ==
    /\ InitShared /\ constructed = {1, 2}
    /\ cfg = [threads |-> {1, 2}, observe |-> {"log"}]

SpecShared == InitTwo /\ [][NextShared]_vars

\* The instances thread t got from get_connection.
Owned(t) ==
    {connections[connection_key(t, h)] :
        h \in {h2 \in Hosts : connection_key(t, h2) \in DOMAIN connections}}

\* The thread that runs operations on its instances; the others only look
\* instances up.
Worker(t) == t \in cfg.threads /\ \A t2 \in cfg.threads : t <= t2

\* Two threads get their instances from get_connection; an instance is used
\* as the source means it to be used, by the thread that looked it up.
NextRegistry ==
    \E t \in Threads :
        \/ \E h \in Hosts : get_connection(t, h)
        \/ get_connection_construct(t)
        \/ get_connection_return(t)
        \/ \E s \in Owned(t) : Worker(t) /\ close(t, s)
        \/ \E s \in Owned(t) : Worker(t) /\ is_open(t, s)
        \/ open_noop(t)
        \/ open_SetTCPIPProtocol(t)
        \/ alloc_unitno_scan(t)
        \/ alloc_unitno_mark(t)
        \/ open_Open2(t)
        \/ close_Close(t)
        \/ close_Release(t)
        \/ is_open_return(t)
        \/ Return(t)

InitRegistry ==
    /\ InitShared /\ constructed = {}
    /\ cfg = [threads |-> {1, 2}, observe |-> {}]

SpecRegistry == InitRegistry /\ [][NextRegistry]_vars

-----------------------------------------------------------------------------
(* Vocabulary of the properties *)

\* The operation of thread t has handed its outcome to the caller.
Done(t) == pc[t] = "done"

\* A call (by its name in the log) was issued by the running operation of t.
Issued(t, name) == \E i \in 1..Len(log[t]) : log[t][i] = name

\* The calls of a complete __open, in order.
FreshOpen == <<"Dispatch", "SetTCPIPProtocol", "alloc_unitno", "Open2">>

\* The slot of the unit number of session s is marked used, and no other
\* session that is open has that number.
HoldsUnit(s) ==
    /\ unitno[s] # NoUnit
    /\ uno_list[unitno[s]]
    /\ \A s2 \in Sessions \ {s} : ~(isopen[s2] /\ unitno[s2] = unitno[s])

-----------------------------------------------------------------------------
(* The properties *)

\* C1: no two sessions that are open hold the same unit number, whatever the
\* sequence of opens, failed opens and closes (a close() repeated on a session
\* and the close() of the connection-lost path included).
C1_NoSharedUnit ==
    \A s1, s2 \in Sessions :
        (s1 # s2 /\ isopen[s1] /\ isopen[s2]) => unitno[s1] # unitno[s2]

\* C2: when __open fails at Open2, after SetTCPIPProtocol succeeded and a unit
\* number was allocated, then, as the error reaches the caller, that unit
\* number is free in the allocator and the session is not open.
Open2Failed(t) ==
    /\ Done(t)
    /\ result[t] = Raised
    /\ exc[t].kind = "remote"
    /\ Issued(t, "Open2")
    /\ ~Issued(t, "File_GetDriveInformation")

C2_NoLeakAfterOpen2Failure ==
    \A t \in Threads :
        Open2Failed(t) => ~uno_list[unitno[ses[t]]] /\ ~isopen[ses[t]]

\* C3: while no operation is running, a session holds a unit number marked
\* used in the allocator if and only if the session is open.
Quiescent == \A t \in Threads : pc[t] = "idle"

C3_UnitIffOpen ==
    Quiescent => \A s \in Sessions : HoldsUnit(s) <=> isopen[s]

\* C4: after a telemetry read that succeeded and a close() of the session, the
\* next is_open() of that session reports closed (returns False), whatever the
\* endpoint does during that is_open().
AfterReadAndClose(t) == Done(t) /\ op[t] = "is_open" /\ pre[t].e2e

C4_ProbeReportsClosed ==
    \A t \in Threads : AfterReadAndClose(t) => result[t] = Ok(FALSE)

\* C4 as amended: that is_open() attempts to open the session again; it reports
\* closed exactly when the attempt raised, and open exactly when the endpoint
\* accepted both handshake calls.
ReopenCompleted(t) == log[t] = FreshOpen /\ errcd[t] >= 0 /\ exc[t] = NoExc

C4_ProbeReportsReopen ==
    \A t \in Threads :
        AfterReadAndClose(t) =>
            /\ Issued(t, "Dispatch") /\ Issued(t, "SetTCPIPProtocol")
            /\ result[t] = Ok(TRUE) <=> ReopenCompleted(t)
            /\ result[t] = Ok(FALSE) <=> exc[t] # NoExc

C4_Witness ==
    \E t \in Threads : AfterReadAndClose(t) /\ result[t] = Ok(TRUE)

\* C5: when the status code handed to __raise_error is one of the two
\* connection-lost codes, close() has run (session closed, unit number
\* released) before the exception leaves; for any other negative code close()
\* has not run and the session is open or closed as it was.
RaisedRemote(t) == pc[t] \in {"raise", "done"} /\ exc[t].kind = "remote"

ClosePathRan(t) ==
    /\ Issued(t, "Close") \/ Issued(t, "Close!")
    /\ Issued(t, "Release") \/ Issued(t, "Release!")

ClosePathNotEntered(t) ==
    \A name \in {"Close", "Close!", "Release", "Release!"} : ~Issued(t, name)

\* The session was open when __raise_error was called: the code came from the
\* operation's own call, which runs after __open; a code of the handshake is
\* raised with the session as the operation found it.
OpenWhenRaised(t) ==
    IF Issued(t, "File_GetDriveInformation") THEN TRUE ELSE pre[t].isopen

C5_LostCodesClose ==
    \A t \in Threads :
        RaisedRemote(t) =>
            IF errcd[t] \in LostCodes
            THEN /\ ClosePathRan(t)
                 /\ ~isopen[ses[t]]
                 /\ ~uno_list[unitno[ses[t]]]
            ELSE /\ ClosePathNotEntered(t)
                 /\ isopen[ses[t]] = OpenWhenRaised(t)

C5_Witness ==
    \E t \in Threads :
        /\ Done(t) /\ result[t] = Raised
        /\ errcd[t] = ERR_NOT_CONNECTED
        /\ pre[t].isopen /\ ~isopen[ses[t]]

\* C6: the guarded operation that follows a connection-lost error of an open
\* session runs a complete fresh __open (new handle, SetTCPIPProtocol, a newly
\* allocated unit number, Open2) before its own endpoint call.
AfterLost(t) == op[t] \in Guarded /\ pre[t].lost

\* The calls of the operation of t, as far as it got, are those of a fresh
\* __open from its first call on.
OpensAfresh(t) ==
    /\ Len(log[t]) >= 2
    /\ log[t][1] = "Dispatch" /\ log[t][2] = "SetTCPIPProtocol"
    /\ Len(log[t]) >= 3 => log[t][3] = "alloc_unitno" /\ unitno[ses[t]] = slot[t]
    /\ Issued(t, "Open2") => log[t][4] = "Open2"

C6_FreshOpenAfterLost ==
    \A t \in Threads :
        AfterLost(t) =>
            /\ pc[t] # "open" => OpensAfresh(t)
            /\ pc[t] = "body" => log[t] = FreshOpen
            /\ Issued(t, "File_GetDriveInformation") =>
                   SubSeq(log[t], 1, 5) = FreshOpen \o <<"File_GetDriveInformation">>

C6_Witness ==
    \E t \in Threads :
        /\ AfterLost(t) /\ Done(t)
        /\ op[t] = "get_drive_infomation" /\ result[t] = Ok(TRUE)
        /\ log[t] = FreshOpen \o <<"File_GetDriveInformation">>

\* C7: __open on a session that is open issues no handshake call, creates no
\* handle, allocates no unit number, and leaves session and allocator as they
\* were, however many times it is called.
FoundOpen(t) == op[t] \in Guarded /\ pre[t].isopen

OpenUntouched(t) ==
    /\ \A i \in 1..Len(FreshOpen) : ~Issued(t, FreshOpen[i])
    /\ slot[t] = NoUnit

SessionAsFound(t) ==
    /\ isopen[ses[t]] = pre[t].isopen
    /\ ezcom[ses[t]] = pre[t].ezcom
    /\ unitno[ses[t]] = pre[t].unitno
    /\ uno_list = pre[t].uno_list

C7_OpenIdempotent ==
    \A t \in Threads :
        FoundOpen(t) =>
            /\ OpenUntouched(t)
            /\ pc[t] \in {"open", "body"} => SessionAsFound(t)
            /\ (op[t] = "is_open" /\ Done(t)) => SessionAsFound(t) /\ result[t] = Ok(TRUE)

C7_Witness ==
    \E t \in Threads :
        /\ FoundOpen(t) /\ Done(t) /\ op[t] = "is_open"
        /\ log[t] = <<>> /\ result[t] = Ok(TRUE)
        /\ e2e[t] = NoE2E

\* C8: __raise_error returns normally exactly for status code 0 and the
\* positive codes, and raises for every negative code, in the error table or
\* not.
\* Positions an operation reaches only by __raise_error returning normally.
Passed(t) ==
    \/ pc[t] = "open2"
    \/ pc[t] = "body" /\ Issued(t, "Open2")
    \/ Done(t) /\ op[t] = "get_drive_infomation" /\ result[t].kind = "ok"

\* Positions where the code in errcd has been handed to __raise_error.
Judged(t) ==
    /\ op[t] \in Guarded
    /\ pc[t] \notin {"idle", "open", "alloc", "mark"}
    /\ Len(log[t]) > 0
    /\ exc[t].kind # "exhausted"

C8_RaisesIffNegative ==
    \A t \in Threads :
        /\ Passed(t) => errcd[t] >= 0 /\ exc[t] = NoExc
        /\ Judged(t) => (errcd[t] < 0 <=> exc[t] = remote_error(ses[t], errcd[t]))
        /\ Judged(t) => (errcd[t] >= 0 <=> exc[t] = NoExc)

C8_Witness ==
    \E t \in Threads :
        /\ Done(t) /\ op[t] = "get_drive_infomation" /\ result[t].kind = "ok"
        /\ errcd[t] = 1
        /\ Issued(t, "Open2")

\* C9: the error raised for a negative status code carries the table's message
\* for the code's unsigned 32-bit hex rendering, and "Unknown error" when the
\* table has no entry for it.
C9_MessageOfCode ==
    \A t \in Threads :
        exc[t].kind = "remote" =>
            /\ exc[t].hex = hex_str(errcd[t])
            /\ exc[t].msg = errmap_get(exc[t].hex, "Unknown error")

\* C10: close() never raises and leaves the session closed, from every state of
\* the session and whatever Close() and Release() do.
Closed(t) == Done(t) /\ op[t] = "close"

C10_CloseNeverRaises ==
    \A t \in Threads :
        Closed(t) =>
            /\ result[t].kind = "ok"
            /\ exc[t] = NoExc
            /\ ~isopen[ses[t]]

C10_Witness ==
    \E t \in Threads :
        /\ Closed(t) /\ pre[t].isopen
        /\ Issued(t, "Close!") /\ Issued(t, "Release!")
        /\ ~isopen[ses[t]]

\* C11: the registry holds exactly one instance per (thread, host): a lookup
\* with the same thread and host returns the same instance every time, also
\* after the instance was closed, and lookups that differ in the thread or in
\* the host return different instances.
Lookups == cfg.threads \X Hosts

Registered(l) == connection_key(l[1], l[2]) \in DOMAIN connections

InstanceOf(l) == connections[connection_key(l[1], l[2])]

OnePerKey ==
    /\ \A l1, l2 \in Lookups :
           (Registered(l1) /\ Registered(l2) /\ l1 # l2) => InstanceOf(l1) # InstanceOf(l2)
    /\ constructed = {InstanceOf(l) : l \in {l2 \in Lookups : Registered(l2)}}
    /\ \A t \in Threads :
           (Done(t) /\ op[t] = "get_connection" /\ result[t].kind = "ok") =>
               /\ Registered(<<t, arg[t].host>>)
               /\ result[t].inst = InstanceOf(<<t, arg[t].host>>)

KeysKeepInstance ==
    \A k \in DOMAIN connections :
        k \in DOMAIN connections' /\ connections'[k] = connections[k]

Count(t, name) == Cardinality({i \in 1..Len(log[t]) : log[t][i] = name})

ReadReturned(t) == Done(t) /\ op[t] = "read_file" /\ result[t].kind = "ok"

\* The blocks in buf are the bytes of the file from offset 0 on, in order.
InOrder(t) ==
    \A i \in 1..Len(buf[t]) : buf[t][i].from = (i - 1) * ChunkSize

C12_ReadsToShortBlock ==
    \A t \in Threads :
        /\ (op[t] = "read_file" /\ pc[t] = "read") =>
               /\ \A i \in 1..Len(buf[t]) : buf[t][i].len = ChunkSize
               /\ InOrder(t)
               /\ Count(t, "File_ReadFile2") = Len(buf[t])
        /\ ReadReturned(t) =>
               /\ Len(buf[t]) = (arg[t].size \div ChunkSize) + 1
               /\ \A i \in 1..(Len(buf[t]) - 1) : buf[t][i].len = ChunkSize
               /\ buf[t][Len(buf[t])].len = arg[t].size % ChunkSize
               /\ InOrder(t)
               /\ Count(t, "File_ReadFile2") = Len(buf[t])

\* A file of exactly two blocks was read: two full blocks and the empty one.
C12_Witness ==
    \E t \in Threads :
        /\ ReadReturned(t)
        /\ arg[t].size = 2 * ChunkSize
        /\ Len(buf[t]) = 3 /\ buf[t][3].len = 0

\* C13: in read_file and write_file, on every exit path on which the file-open
\* call was issued, a file-close call is attempted before the operation
\* returns or raises, and what that attempt does changes neither the value
\* returned nor the error raised.
FileOpened(t) == op[t] \in FileOps /\ Issued(t, "File_OpenFile3")

Leaving(t) == pc[t] \in {"raise", "done"}

CloseAttempted(t) ==
    /\ Len(log[t]) > 0
    /\ log[t][Len(log[t])] \in {"File_CloseFile2", "File_CloseFile2!"}
    /\ Count(t, "File_CloseFile2") + Count(t, "File_CloseFile2!") = 1

C13_FileClosedOnExit ==
    \A t \in Threads :
        (FileOpened(t) /\ Leaving(t)) =>
            /\ CloseAttempted(t)
            /\ IF errcd[t] < 0
               THEN exc[t] = remote_error(ses[t], errcd[t])
                    /\ (Done(t) => result[t] = Raised)
               ELSE exc[t] = NoExc /\ result[t] = Ok(TRUE)

\* A read that failed on its second block, whose file-close call raised.
C13_Witness ==
    \E t \in Threads :
        /\ FileOpened(t) /\ Done(t) /\ result[t] = Raised
        /\ Len(buf[t]) = 1
        /\ Issued(t, "File_CloseFile2!")
        /\ exc[t].hex = "0xffffffff"

\* C18: the status code of every endpoint call is passed through
\* __raise_error, the file-close call of read_file and write_file included: a
\* negative code it returns raises, and a connection-lost code it returns
\* leaves the session closed.
FileCloseReturned(t) ==
    Done(t) /\ op[t] \in FileOps /\ Issued(t, "File_CloseFile2")

C18_EveryCodeJudged ==
    \A t \in Threads :
        FileCloseReturned(t) =>
            /\ (errcd[t] < 0 \/ dropcd[t] < 0) => result[t] = Raised
            /\ dropcd[t] \in LostCodes => ~isopen[ses[t]]

\* C14: the path find_dir passes to both find-dir calls has every occurrence
\* of the token "M01" replaced by "M" and the two zero-padded uppercase
\* hexadecimal digits of the session's unit number; a path without the token
\* is passed as it is.
TwoHexDigits(n) == <<HexDigitsUpper[(n \div 16) + 1], HexDigitsUpper[(n % 16) + 1]>>

TokenAsClaimed(p, uno) == replace(p, <<"M", "0", "1">>, <<"M">> \o TwoHexDigits(uno))

C14_TokenReplaced ==
    \A t \in Threads :
        (op[t] = "find_dir" /\ Issued(t, "File_FindDir2")) =>
            path[t] = TokenAsClaimed(arg[t].path, unitno[ses[t]])

\* C15: get_current_position and get_program_number called with a selector
\* that is no member of the enumeration they ask for raise before any
\* endpoint call: no handle is made, no handshake call issued, no unit number
\* allocated, the session is as it was, and the lock is released.
BadSelector(t) == op[t] \in SelOps /\ arg[t].sel.cls # required_class(op[t])

C15_BadSelectorFailsFast ==
    \A t \in Threads :
        BadSelector(t) =>
            /\ pc[t] \in {"raise", "done"}
            /\ exc[t] = local_error("selector")
            /\ log[t] = <<>> /\ slot[t] = NoUnit
            /\ SessionAsFound(t)
            /\ Done(t) => result[t] = Raised /\ lock = NoThread

\* get_current_position was handed a member of ProgramType while the session
\* was open, and has raised.
C15_Witness ==
    \E t \in Threads :
        /\ BadSelector(t) /\ Done(t)
        /\ op[t] = "get_current_position" /\ arg[t].sel.cls = "ProgramType"
        /\ pre[t].isopen /\ isopen[ses[t]]
        /\ lock = NoThread

\* C19: when the device-write call of write_dev returns a failing status code,
\* the device-delete-all call is still issued, and the error that reaches the
\* caller is the one of the write call, whatever the delete-all call returns.
WriteFailed(t) ==
    Done(t) /\ op[t] = "write_dev" /\ Issued(t, "Device_Write") /\ errcd[t] < 0

C19_WriteErrorPropagates ==
    \A t \in Threads :
        WriteFailed(t) =>
            /\ Issued(t, "Device_DeleteAll")
            /\ result[t] = Raised
            /\ exc[t] = remote_error(ses[t], errcd[t])

\* C20: read_dev and write_dev called with a device identifier whose first
\* character is neither 'M' nor 'D' fail with an unsupported-device error and
\* do not go on to the device access.
UnsupportedDev(t) ==
    /\ op[t] \in DevOps
    /\ has_first(arg[t].dev) /\ arg[t].dev[1] \notin {"M", "D"}

C20_UnsupportedDeviceRejected ==
    \A t \in Threads :
        UnsupportedDev(t) =>
            /\ \A name \in {"Device_SetDevice", "Device_Read", "Device_Write"} : ~Issued(t, name)
            /\ Done(t) => result[t] = Raised

\* C17: when every unit number is marked used, alloc_unitno fails with the
\* exhausted error and leaves the allocator table as it is, and the __open
\* that asked for the number raises without the session becoming open; a
\* number is handed out only from a free slot, so with as many allocations
\* as there are unit numbers and no release, the next allocation fails.
Full(list) == \A u \in Units : list[u]

Exhausted(t) == exc[t].kind = "exhausted"

\* The allocation of the running operation is over: the scan has been made.
Scanned(t) ==
    Issued(t, "SetTCPIPProtocol") /\ pc[t] \notin {"alloc", "idle"}

C17_ExhaustedAllocFails ==
    \A t \in Threads :
        /\ pc[t] = "mark" => slot[t] \in Units /\ ~uno_list[slot[t]]
        /\ Scanned(t) => (Full(pre[t].uno_list) <=> Exhausted(t))
        /\ Exhausted(t) =>
              /\ exc[t] = local_error("exhausted")
              /\ Full(uno_list) /\ uno_list = pre[t].uno_list
              /\ ~isopen[ses[t]]
              /\ slot[t] = NoUnit
              /\ ~Issued(t, "alloc_unitno") /\ ~Issued(t, "Open2")
              /\ (Done(t) /\ op[t] # "is_open") => result[t] = Raised

\* Every unit number was used when get_drive_infomation asked for one: the
\* operation has raised the exhausted error and the session is closed.
C17_Witness ==
    \E t \in Threads :
        /\ Done(t) /\ op[t] = "get_drive_infomation"
        /\ Exhausted(t) /\ Full(uno_list)
        /\ result[t] = Raised /\ ~isopen[ses[t]]
        /\ log[t] = <<"Dispatch", "SetTCPIPProtocol">>

\* C16: for one session used by several threads the lock orders all the
\* operations that touch its endpoint handle, close() included: no thread
\* issues an endpoint call on the session while an operation of another
\* thread on it stands between its first and its last endpoint call.
\* Thread t stands between two endpoint calls of its operation:
\* SetTCPIPProtocol has returned and Open2 is its next call.
BetweenCalls(t) == pc[t] = "open2" /\ Issued(t, "SetTCPIPProtocol")

\* The step issues an endpoint call of thread t (alloc_unitno is logged and
\* is no endpoint call).
IssuesCall(t) ==
    /\ Len(log'[t]) > Len(log[t])
    /\ log'[t][Len(log'[t])] # "alloc_unitno"

NoCallBetween ==
    \A t, t2 \in Threads :
        (t # t2 /\ BetweenCalls(t2) /\ ses'[t] = ses[t2]) => ~IssuesCall(t)

C16_LockOrdersAllOperations == [][NoCallBetween]_vars

\* C21: __open allocates a unit number only after SetTCPIPProtocol succeeded:
\* when that call returned a failing status code, the allocator table after
\* the failed __open is the table before it.
HandshakeFailed(t) ==
    /\ pc[t] \in {"raise", "done"}
    /\ op[t] \in Guarded
    /\ Issued(t, "SetTCPIPProtocol") /\ ~Issued(t, "Open2")
    /\ errcd[t] < 0

C21_NoAllocAfterFailedHandshake ==
    \A t \in Threads :
        HandshakeFailed(t) =>
            /\ ~Issued(t, "alloc_unitno")
            /\ uno_list = pre[t].uno_list

\* C22: in each pass of find_dir a record is appended for every find-first or
\* find-next response whose status code is strictly positive, and the pass
\* ends at the first response whose code is not: a response with status
\* code 1 gives a record.
\* Thread t is in a pass and holds a response that __raise_error let through.
InPass(t) == op[t] = "find_dir" /\ pc[t] \in {"folders", "files"}

\* The entry of the response has the parts its record is built from.
WellFormed(t) == remote[t] >= parts_needed(pass_type(t))

RecordPerPositiveCode ==
    \A t \in Threads :
        (InPass(t) /\ pc'[t] # "idle" /\ <<pc[t], log[t]>> # <<pc'[t], log'[t]>>) =>
            /\ (errcd[t] >= 1 /\ WellFormed(t)) =>
                  /\ buf'[t] = Append(buf[t], [type |-> pass_type(t)])
                  /\ log'[t] = Append(log[t], "File_FindNextDir2")
            /\ errcd[t] < 1 =>
                  /\ buf'[t] = buf[t]
                  /\ log'[t] # Append(log[t], "File_FindNextDir2")

C22_RecordPerPositiveCode == [][RecordPerPositiveCode]_vars

\* C23: on every exit path of find_dir (both passes done, an error in a pass
\* or in the reset between them, or a failed __open) a final reset-dir call
\* is attempted as the last directory-protocol call, and a failure of that
\* call neither raises to the caller nor changes the list returned or the
\* error that is propagating.
ResetNames == {"File_ResetDir", "File_ResetDir!"}

CloseNames == {"Close", "Close!", "Release", "Release!"}

\* find_dir of thread t is past its final reset: it is about to return or to
\* let the exception go on, or it is in the close() of a connection-lost code
\* that the final reset returned.
FinalPhase(t) ==
    /\ op[t] = "find_dir"
    /\ \/ pc[t] \in {"return", "reraise"}
       \/ pc[t] \in {"close1", "close2"} /\ cont[t] \in {"return", "reraise"}

\* Where find_dir goes after the final phase.
Bound(t) == IF pc[t] \in {"return", "reraise"} THEN pc[t] ELSE cont[t]

FinalResetStep ==
    \A t \in Threads :
        /\ (op[t] = "find_dir" /\ pc[t] # "done" /\ pc'[t] = "done") =>
              /\ pc[t] \in {"return", "reraise"}
              /\ result'[t] = IF pc[t] = "return" THEN Ok(TRUE) ELSE Raised
              /\ exc'[t] = exc[t] /\ buf'[t] = buf[t]
        /\ (op[t] = "find_dir" /\ ~FinalPhase(t) /\ FinalPhase(t)') =>
              /\ \E name \in ResetNames : log'[t] = Append(log[t], name)
              /\ Bound(t)' = IF pc[t] = "raise" THEN "reraise" ELSE "return"
              /\ exc'[t] = exc[t] /\ buf'[t] = buf[t]
        /\ (FinalPhase(t) /\ FinalPhase(t)') =>
              /\ Bound(t)' = Bound(t)
              /\ exc'[t] = exc[t] /\ buf'[t] = buf[t]
              /\ \/ log'[t] = log[t]
                 \/ \E name \in CloseNames : log'[t] = Append(log[t], name)

C23_FinalResetOnEveryExit == [][FinalResetStep]_vars

\* find_dir has raised the error of its first find call, after a final reset
\* that raised as well.
C23_Witness ==
    \E t \in Threads :
        /\ Done(t) /\ op[t] = "find_dir"
        /\ result[t] = Raised /\ exc[t].kind = "remote"
        /\ Len(log[t]) = 6
        /\ log[t][5] = "File_FindDir2" /\ log[t][6] = "File_ResetDir!"

\* C28: whenever a guarded operation other than is_open returns normally, the
\* session is open as it returns; find_dir in particular returns no list
\* while leaving the session closed.
ReturnedNormally(t) ==
    /\ Done(t)
    /\ op[t] \in Guarded \ {"is_open"}
    /\ result[t].kind = "ok"

C28_OpenOnNormalReturn ==
    \A t \in Threads : ReturnedNormally(t) => isopen[ses[t]]

\* C27: no endpoint call is issued on the handle of a session after Release()
\* was called on it: after a connection-lost error in read_file, write_file or
\* find_dir has run close(), the cleanup of the operation issues no file-close
\* or reset-dir call on the released handle.
ReleaseNames == {"Release", "Release!"}

\* The log of one operation starts at its first call, so a Dispatch in it
\* comes before every Release in it: all its entries are calls on one handle.
C27_NoCallAfterRelease ==
    \A t \in Threads :
        \A i \in 1..Len(log[t]) :
            log[t][i] \in ReleaseNames => i = Len(log[t])

\* C24: when threads run __open on different sessions, the scan and the mark
\* of alloc_unitno taken as separate steps, no two of them get the same unit
\* number: the scan and mark of one allocation are never interleaved with
\* another allocation of an open path.
InOpen(t) == op[t] \in Guarded /\ pc[t] \in {"open", "alloc", "mark", "open2"}

\* Session s has a unit number from alloc_unitno: it is open, or its __open
\* stands before Open2.
HasUnit(s) == isopen[s] \/ \E t \in Threads : ses[t] = s /\ pc[t] = "open2"

C24_AllocationsNeverInterleave ==
    /\ \A t, t2 \in Threads :
          t # t2 => ~(InOpen(t) /\ InOpen(t2))
    /\ \A t \in Threads :
          pc[t] = "mark" => slot[t] \in Units /\ ~uno_list[slot[t]]
    /\ \A s1, s2 \in Sessions :
          (s1 # s2 /\ HasUnit(s1) /\ HasUnit(s2)) => unitno[s1] # unitno[s2]

\* Thread 2 has opened its session with unit number 1, and thread 1 has got
\* unit number 2 for its own session and stands before Open2.
C24_Witness ==
    /\ pc[1] = "open2" /\ ses[1] = instance_of(1) /\ unitno[instance_of(1)] = 2
    /\ isopen[instance_of(2)] /\ unitno[instance_of(2)] = 1
    /\ pc[2] = "done" /\ op[2] = "is_open" /\ Issued(2, "alloc_unitno")

\* C26: at most one thread at a time is inside a guarded operation, over all
\* the instances, because the lock is one object shared by every instance:
\* endpoint calls of guarded operations on different sessions never
\* interleave, and a guarded operation that stands in a remote call keeps the
\* guarded operations of every other session out.
Inside(t) == op[t] \in Guarded /\ pc[t] \notin {"idle", "done"}

OneInside ==
    \A t \in Threads :
        Inside(t) => lock = t /\ \A t2 \in Threads \ {t} : ~Inside(t2)

OthersKeptOut ==
    \A t, t2 \in Threads :
        (t # t2 /\ Inside(t2)) =>
            /\ ~IssuesCall(t)
            /\ pc[t] = "idle" => pc'[t] = "idle"

C26_OneGuardedOperationAtATime == []OneInside /\ [][OthersKeptOut]_vars

\* Thread 1 stands in get_drive_infomation on its open session, before the
\* remote call, while thread 2, whose session is open as well, is idle.
C26_Witness ==
    /\ op[1] = "get_drive_infomation" /\ pc[1] = "body" /\ lock = 1
    /\ pc[2] = "idle"
    /\ isopen[instance_of(1)] /\ isopen[instance_of(2)]

\* C29: in read_dev and write_dev a device-set call that was issued is
\* followed by a device-delete-all call before the operation returns or
\* raises, on every exit path: no device set for a read or a write that
\* failed stays registered on the endpoint.
\* The device-set call of thread t, for an M or a D device, succeeded: its
\* read or write call followed.
DeviceSet(t) ==
    /\ op[t] \in DevOps
    /\ has_first(arg[t].dev) /\ data_type(arg[t].dev) # 0
    /\ Issued(t, "Device_SetDevice")
    /\ Issued(t, "Device_Read") \/ Issued(t, "Device_Write")

C29_DeviceSetIsDeleted ==
    \A t \in Threads :
        (Done(t) /\ DeviceSet(t)) => Issued(t, "Device_DeleteAll")

\* C25: set_tool_offset_h(toolset_no, h), when every endpoint call returns
\* status 0, returns normally after setting the length offset (kind 0) of the
\* toolset only, with no offset-set call for the diameter offset (kind 2).
\* set_tool_offset_h of thread t is over and no endpoint call of it failed.
LengthSetUnfailed(t) ==
    /\ Done(t) /\ op[t] = "set_tool_offset_h"
    /\ exc[t].kind \notin {"remote", "exhausted"}

C25_SetsLengthOnly ==
    \A t \in Threads :
        LengthSetUnfailed(t) =>
            /\ result[t].kind = "ok"
            /\ Issued(t, SetOffsetName(0))
            /\ ~Issued(t, SetOffsetName(2))

====
